---- MODULE Spec2Model ----
(***************************************************************************)
(* voxpipe: merging a transcript with a speaker diarization, filtering     *)
(* hallucinated segments, cleaning text and LLM correction/translation.    *)
(*                                                                         *)
(* Times are fixed-point: a time in seconds is an integer number of ticks, *)
(* TicksPerMs ticks to the millisecond.  Strings are sequences of          *)
(* one-character strings.  A Python dict is a sequence of entries in       *)
(* insertion order.                                                        *)
(***************************************************************************)
EXTENDS Integers, Sequences, FiniteSets, TLC

\* ------------------------------------------------------------------ bounds
MaxTime == 2          \* diarization/target time grid 0..MaxTime (ticks)
MaxCand == 3          \* diarization turns handed to find_dominant_speaker
TicksPerMs == 3       \* resolution of the fixed-point seconds

\* ------------------------------------------------------------------- state
\* find_dominant_speaker
VARIABLES
    dom_pc,                 \* "loop" | "done"
    seg_start, seg_end,     \* the target interval
    diarization_segments,   \* the candidate turns
    dom_i,                  \* turns already scanned
    speaker_overlaps,       \* the dict of accumulated overlaps
    dominant                \* the value returned

domVars == <<dom_pc, seg_start, seg_end, diarization_segments, dom_i,
             speaker_overlaps, dominant>>

\* merge_transcript
VARIABLES
    merge_pc,          \* "load" | "build" | "consolidate" | "save" | "done" | "error"
    transcript_path,   \* the path handed in, as spelled by the caller
    diarization_path,
    transcript_data,   \* the transcript document
    diarization_data,  \* the diarization document
    diar_segments,
    merged_segments,
    build_i,           \* source segments already visited by the first loop
    consolidated,
    cons_i,            \* merged segments already visited by the second loop
    merge_result,      \* the dictionary returned
    merge_error,       \* the exception raised, "" if none
    output_file        \* the document at output_path

mergeVars == <<merge_pc, transcript_path, diarization_path, transcript_data,
               diarization_data, diar_segments,
               merged_segments, build_i, consolidated, cons_i, merge_result,
               merge_error, output_file>>

\* remove_repeated_segments
VARIABLES
    filter_pc,                \* "loop" | "done"
    segments,                 \* the list handed in
    similarity_threshold,     \* a ratio [num, den]
    max_consecutive_similar,
    filter_i,                 \* segments already visited
    cleaned,
    consecutive_similar,
    last_text,
    filter_result             \* the list returned

filterVars == <<filter_pc, segments, similarity_threshold,
                max_consecutive_similar, filter_i, cleaned,
                consecutive_similar, last_text, filter_result>>

\* clean_transcript_text
VARIABLES
    clean_pc,            \* "sub" | "split" | "loop" | "done"
    clean_text,          \* the local `text`
    sentences,
    clean_i,             \* sentences already visited
    cleaned_sentences,
    last_sentence,
    repeat_count,
    clean_result         \* the string returned

cleanVars == <<clean_pc, clean_text, sentences, clean_i, cleaned_sentences,
               last_sentence, repeat_count, clean_result>>

\* detect_repetition
VARIABLES
    detect_pc,           \* "normalize" | "scan" | "done"
    detect_text,         \* the local `text`
    min_phrase_len,
    min_repeats,
    phrase_len,          \* the outer loop's variable
    detect_result        \* [found, phrase]: the phrase returned, or None

detectVars == <<detect_pc, detect_text, min_phrase_len, min_repeats,
                phrase_len, detect_result>>

\* correct_transcript / translate_transcript
VARIABLES
    llm_pc,              \* "loop" | "request" | "done" | "error"
    llm_op,              \* "correct" | "translate"
    llm_segments,        \* data["segments"] of the input document
    llm_i,               \* segments already handled
    in_flight,           \* HTTP requests awaiting their response
    requests,            \* positions of the segments POSTed so far, in order
    out_segments,        \* corrected_segments / translated_segments
    llm_file             \* the document at output_path

llmVars == <<llm_pc, llm_op, llm_segments, llm_i, in_flight, requests,
             out_segments, llm_file>>

\* seconds_to_srt / seconds_to_vtt
VARIABLES
    codec_pc,            \* "encode" | "decode" | "done"
    codec_seconds,       \* the time handed in
    codec_style,         \* "srt" | "vtt"
    codec_text,          \* the timestamp returned
    codec_decoded        \* the time read back from the timestamp

codecVars == <<codec_pc, codec_seconds, codec_style, codec_text, codec_decoded>>

\* export_srt / export_vtt
VARIABLES
    sub_pc,              \* "load" | "loop" | "done" | "error"
    sub_style,           \* "srt" | "vtt"
    include_speaker,
    sub_data,            \* the document at input_path
    sub_segments,        \* the local `segments`
    sub_i,               \* segments already visited
    sub_lines,           \* srt_lines / vtt_lines
    sub_file             \* the text at output_path

subVars == <<sub_pc, sub_style, include_speaker, sub_data, sub_segments, sub_i,
             sub_lines, sub_file>>

\* main / cmd_pipeline_run
VARIABLES
    cli_pc,              \* "main" | "handler" | "pipeline" | "stage" | "exit"
    cli_argv,            \* the command line after the program name
    video,               \* args.video, the file name of the input video
    lang,                \* args.lang
    files,               \* output_dir: file name -> who wrote the file
    stage,               \* stages of the pipeline that returned
    started,             \* names of the stages started, in order
    reads,               \* the files the stages opened, in order
    cli_output,          \* what the run printed last
    exit_code            \* the exit status of the process

cliVars == <<cli_pc, cli_argv, video, lang, files, stage, started, reads,
             cli_output, exit_code>>

vars == <<domVars, mergeVars, filterVars, cleanVars, detectVars, llmVars,
          codecVars, subVars, cliVars>>

notDom ==
    <<mergeVars, filterVars, cleanVars, detectVars, llmVars, codecVars, subVars,
      cliVars>>
notMerge ==
    <<domVars, filterVars, cleanVars, detectVars, llmVars, codecVars, subVars,
      cliVars>>
notFilter ==
    <<domVars, mergeVars, cleanVars, detectVars, llmVars, codecVars, subVars,
      cliVars>>
notDetect ==
    <<domVars, mergeVars, filterVars, cleanVars, llmVars, codecVars, subVars,
      cliVars>>
notLlm ==
    <<domVars, mergeVars, filterVars, cleanVars, detectVars, codecVars, subVars,
      cliVars>>
notCodec ==
    <<domVars, mergeVars, filterVars, cleanVars, detectVars, llmVars, subVars,
      cliVars>>
notSub ==
    <<domVars, mergeVars, filterVars, cleanVars, detectVars, llmVars,
      codecVars,
      cliVars>>
notClean ==
    <<domVars, mergeVars, filterVars, detectVars, llmVars, codecVars, subVars,
      cliVars>>

notCli ==
    <<domVars, mergeVars, filterVars, cleanVars, detectVars, llmVars,
      codecVars, subVars>>

\* ----------------------------------------------------------------- strings
Whitespace == {" "}

Max2(a, b) == IF a >= b THEN a ELSE b
Min2(a, b) == IF a <= b THEN a ELSE b

RECURSIVE lstrip(_)
lstrip(s) == IF s # <<>> /\ Head(s) \in Whitespace THEN lstrip(Tail(s)) ELSE s

RECURSIVE rstrip(_)
rstrip(s) ==
    IF s # <<>> /\ s[Len(s)] \in Whitespace
    THEN rstrip(SubSeq(s, 1, Len(s) - 1))
    ELSE s

\* str.strip()
strip(s) == rstrip(lstrip(s))

\* ------------------------------------------------- find_dominant_speaker
UNKNOWN == "UNKNOWN"
Speakers == {"SPEAKER_00", "SPEAKER_01"}

calculate_overlap(seg_s, seg_e, diar_s, diar_e) ==
    LET overlap_start == Max2(seg_s, diar_s)
        overlap_end == Min2(seg_e, diar_e)
    IN Max2(0, overlap_end - overlap_start)

\* dict.get(key, 0) on an insertion-ordered dict
DictGet(d, k) ==
    IF \E i \in 1..Len(d) : d[i].speaker = k
    THEN (d[CHOOSE i \in 1..Len(d) : d[i].speaker = k]).overlap
    ELSE 0

\* d[key] = value: an existing key keeps its position, a new key goes last
DictSet(d, k, v) ==
    IF \E i \in 1..Len(d) : d[i].speaker = k
    THEN [i \in 1..Len(d) |->
            IF d[i].speaker = k THEN [speaker |-> k, overlap |-> v] ELSE d[i]]
    ELSE Append(d, [speaker |-> k, overlap |-> v])

OverlapsOverwrite(d, s, e, diar) ==
    LET overlap == calculate_overlap(s, e, diar.start, diar.end)
    IN IF overlap > 0 THEN DictSet(d, diar.speaker, overlap) ELSE d

OverlapsAddTouching(d, s, e, diar) ==
    LET overlap == calculate_overlap(s, e, diar.start, diar.end)
    IN IF overlap >= 0
       THEN DictSet(d, diar.speaker, DictGet(d, diar.speaker) + overlap)
       ELSE d

\* one iteration of the loop over diarization_segments
OverlapsAdd(d, s, e, diar) ==
    LET overlap == calculate_overlap(s, e, diar.start, diar.end)
    IN IF overlap > 0
       THEN DictSet(d, diar.speaker, DictGet(d, diar.speaker) + overlap)
       ELSE d

PyMaxKeyLast(d) ==
    (d[CHOOSE i \in 1..Len(d) :
          /\ \A j \in 1..Len(d) : d[j].overlap <= d[i].overlap
          /\ \A j \in (i + 1)..Len(d) : d[j].overlap < d[i].overlap]).speaker

\* max(d, key=...): the first key, in iteration order, with the greatest value
PyMaxKey(d) ==
    (d[CHOOSE i \in 1..Len(d) :
          /\ \A j \in 1..Len(d) : d[j].overlap <= d[i].overlap
          /\ \A j \in 1..(i - 1) : d[j].overlap < d[i].overlap]).speaker

RECURSIVE OverlapsOf(_, _, _)
OverlapsOf(s, e, diars) ==
    IF diars = <<>> THEN <<>>
    ELSE OverlapsAdd(OverlapsOf(s, e, SubSeq(diars, 1, Len(diars) - 1)),
                     s, e, diars[Len(diars)])

DominantOf(d) == IF d = <<>> THEN UNKNOWN ELSE PyMaxKey(d)

find_dominant_speaker(s, e, diars) == DominantOf(OverlapsOf(s, e, diars))

\* sequences of length <= n over S
SeqUpTo(S, n) == UNION {[1..k -> S] : k \in 0..n}

Intervals == {iv \in (0..MaxTime) \X (0..MaxTime) : iv[1] <= iv[2]}

\* a turn is a span of positive duration attributed to one speaker
Turns ==
    {[start |-> iv[1], end |-> iv[2], speaker |-> sp] :
        iv \in {x \in Intervals : x[1] < x[2]}, sp \in Speakers}

DomIdle ==
    /\ dom_pc = "idle"
    /\ seg_start = 0
    /\ seg_end = 0
    /\ diarization_segments = <<>>
    /\ dom_i = 0
    /\ speaker_overlaps = <<>>
    /\ dominant = ""

DomInit ==
    /\ dom_pc = "loop"
    /\ \E iv \in Intervals : seg_start = iv[1] /\ seg_end = iv[2]
    /\ diarization_segments \in SeqUpTo(Turns, MaxCand)
    /\ dom_i = 0
    /\ speaker_overlaps = <<>>
    /\ dominant = ""

\* merger.py 51-55: one turn of the scan
DominantStep ==
    /\ dom_pc = "loop"
    /\ dom_i < Len(diarization_segments)
    /\ dom_i' = dom_i + 1
    /\ speaker_overlaps' =
          OverlapsAdd(speaker_overlaps, seg_start, seg_end,
                      diarization_segments[dom_i + 1])
    /\ UNCHANGED <<dom_pc, seg_start, seg_end, diarization_segments, dominant>>
    /\ UNCHANGED notDom

\* merger.py 57-60
DominantReturn ==
    /\ dom_pc = "loop"
    /\ dom_i = Len(diarization_segments)
    /\ dominant' = DominantOf(speaker_overlaps)
    /\ dom_pc' = "done"
    /\ UNCHANGED <<seg_start, seg_end, diarization_segments, dom_i,
                   speaker_overlaps>>
    /\ UNCHANGED notDom

DomNext == DominantStep \/ DominantReturn

\* ---------------------------------------------- claims: dominant speaker
\* overlap of the target with turn c, as the contract states it
SpecOverlap(c) ==
    Max2(0, Min2(seg_end, c.end) - Max2(seg_start, c.start))

\* accumulated overlap of label l over the first k turns
RECURSIVE PrefixTotal(_, _)
PrefixTotal(l, k) ==
    IF k = 0 THEN 0
    ELSE PrefixTotal(l, k - 1)
         + (IF diarization_segments[k].speaker = l
            THEN SpecOverlap(diarization_segments[k]) ELSE 0)

Total(l) == PrefixTotal(l, Len(diarization_segments))

SomePositive ==
    \E i \in 1..Len(diarization_segments) :
        SpecOverlap(diarization_segments[i]) > 0

MaxTotal == CHOOSE m \in {Total(l) : l \in Speakers} :
                \A l \in Speakers : Total(l) <= m

Tied == {l \in Speakers : Total(l) = MaxTotal}

\* C1: when some turn overlaps the target, the label returned has the
\* greatest accumulated overlap: no label has a strictly larger total.
C1_GreatestTotal ==
    (dom_pc = "done" /\ SomePositive) =>
        /\ dominant \in Speakers
        /\ \A l \in Speakers : Total(l) <= Total(dominant)

\* the winner's overlap is split over non-adjacent turns and beats a rival
C1_Witness ==
    /\ dom_pc = "done"
    /\ \E i, j, k \in 1..Len(diarization_segments) :
          /\ i < j /\ j < k
          /\ diarization_segments[i].speaker = dominant
          /\ diarization_segments[k].speaker = dominant
          /\ diarization_segments[j].speaker # dominant
          /\ SpecOverlap(diarization_segments[i]) > 0
          /\ SpecOverlap(diarization_segments[j]) > 0
          /\ SpecOverlap(diarization_segments[k]) > 0
          /\ Total(diarization_segments[j].speaker)
                >= SpecOverlap(diarization_segments[i])
          /\ Total(diarization_segments[j].speaker) < Total(dominant)

\* the scan position at which label l's running total reaches the maximum
ReachIndex(l) ==
    CHOOSE k \in 1..Len(diarization_segments) :
        /\ PrefixTotal(l, k) = MaxTotal
        /\ \A m \in 1..(k - 1) : PrefixTotal(l, m) < MaxTotal

\* the position of label l's first turn with positive overlap
FirstIndex(l) ==
    CHOOSE k \in 1..Len(diarization_segments) :
        /\ diarization_segments[k].speaker = l
        /\ SpecOverlap(diarization_segments[k]) > 0
        /\ \A m \in 1..(k - 1) :
              ~(/\ diarization_segments[m].speaker = l
                /\ SpecOverlap(diarization_segments[m]) > 0)

\* target [0,10] against ([0,5],A),([5,10],B), on the model's grid
TieExample ==
    /\ seg_start = 0 /\ seg_end = 2
    /\ diarization_segments =
          <<[start |-> 0, end |-> 1, speaker |-> "SPEAKER_00"],
            [start |-> 1, end |-> 2, speaker |-> "SPEAKER_01"]>>

\* C2 as stated: among tied labels the one whose running total reaches the
\* maximum first in the scan is returned.
C2_FirstToReachMax ==
    (dom_pc = "done" /\ SomePositive /\ Cardinality(Tied) >= 2) =>
        /\ dominant \in Tied
        /\ \A l \in Tied : ReachIndex(dominant) <= ReachIndex(l)

\* C2 (amended): among the labels with the greatest total, the one returned
\* is the label whose first overlapping turn comes earliest in the list; the
\* example target [0,10] with ([0,5],A),([5,10],B) returns A.
C2_FirstSeenAmongTied ==
    /\ (dom_pc = "done" /\ SomePositive) =>
          /\ dominant \in Tied
          /\ \A l \in Tied : FirstIndex(dominant) <= FirstIndex(l)
    /\ (dom_pc = "done" /\ TieExample) => dominant = "SPEAKER_00"

\* a tie in which the label seen first reaches the maximum last
C2_Witness ==
    /\ dom_pc = "done"
    /\ SomePositive
    /\ Cardinality(Tied) >= 2
    /\ \E l \in Tied : l # dominant /\ ReachIndex(l) < ReachIndex(dominant)

\* C3: "UNKNOWN" is returned if and only if no turn has strictly positive
\* overlap with the target.
C3_UnknownIffNoOverlap ==
    dom_pc = "done" =>
        (dominant = UNKNOWN <=>
            \A i \in 1..Len(diarization_segments) :
                ~(Max2(seg_start, diarization_segments[i].start)
                    < Min2(seg_end, diarization_segments[i].end)))

\* a zero-duration target strictly inside a turn, next to a touching turn
C3_Witness ==
    /\ dom_pc = "done"
    /\ dominant = UNKNOWN
    /\ seg_start = seg_end
    /\ \E i \in 1..Len(diarization_segments) :
          /\ diarization_segments[i].start < seg_start
          /\ seg_end < diarization_segments[i].end
    /\ \E i \in 1..Len(diarization_segments) :
          diarization_segments[i].end = seg_start

\* --------------------------------------------------------- merge_transcript
MaxSegs == 3          \* segments of a transcript document
MaxTurns == 2         \* turns of a diarization document

hi == <<"h", "i">>
yo_padded == <<" ", "y", "o", " ">>
yo == <<"y", "o">>
blank == <<" ">>

\* str + " " + str
JoinSpace(a, b) == a \o <<" ">> \o b

\* round(x, 3) on fixed-point seconds: to the nearest millisecond (the short
\* times of the model sit just above a decimal tie in binary, so ties go up)
Round3(t) ==
    LET q == t \div TicksPerMs
        r == t % TicksPerMs
    IN IF 2 * r < TicksPerMs THEN q * TicksPerMs ELSE (q + 1) * TicksPerMs

\* offsets in milliseconds / 1000.0
MsToSeconds(ms) == ms * TicksPerMs

\* whisper.cpp segments: offsets in integer milliseconds
PoolA ==
    { [offsets |-> [from |-> 0, to |-> 1], text |-> hi],
      [offsets |-> [from |-> 1, to |-> 2], text |-> yo_padded],
      [offsets |-> [from |-> 2, to |-> 2], text |-> hi],
      [offsets |-> [from |-> 0, to |-> 1], text |-> blank],
      [offsets |-> [to |-> 2], text |-> hi] }

\* whisper segments: float seconds, not always whole milliseconds
PoolB ==
    { [start |-> 0, end |-> TicksPerMs, text |-> hi],
      [start |-> 1, end |-> 2 * TicksPerMs - 1, text |-> yo_padded],
      [start |-> 2 * TicksPerMs, end |-> 2 * TicksPerMs, text |-> hi],
      [start |-> TicksPerMs, end |-> 2 * TicksPerMs, text |-> blank] }

TurnPool ==
    { [start |-> 0, end |-> TicksPerMs, speaker |-> "SPEAKER_00"],
      [start |-> TicksPerMs, end |-> 2 * TicksPerMs, speaker |-> "SPEAKER_01"],
      [start |-> 0, end |-> 2 * TicksPerMs, speaker |-> "SPEAKER_01"] }

\* the transcript documents: shape A, shape B, both fields, neither field
TranscriptDocs ==
    {[keys |-> {"transcription"}, transcription |-> l, segments |-> <<>>] :
        l \in SeqUpTo(PoolA, MaxSegs)}
    \cup
    {[keys |-> {"segments"}, transcription |-> <<>>, segments |-> l] :
        l \in SeqUpTo(PoolB, MaxSegs)}
    \cup
    {[keys |-> {"transcription", "segments"}, transcription |-> a,
      segments |-> b] : a \in SeqUpTo(PoolA, 1), b \in SeqUpTo(PoolB, 1)}
    \cup
    {[keys |-> {}, transcription |-> <<>>, segments |-> <<>>]}

RECURSIVE SortedLabels(_)
SortedLabels(S) ==
    IF S = {} THEN <<>>
    ELSE LET m == IF "SPEAKER_00" \in S THEN "SPEAKER_00"
                  ELSE CHOOSE x \in S : TRUE
         IN <<m>> \o SortedLabels(S \ {m})

\* the diarization documents, as run_diarization writes them or with a
\* field missing
DiarizationDocs ==
    {[keys |-> k \cup {"segments"}, segments |-> l,
      speakers |-> IF "speakers" \in k
                   THEN SortedLabels({l[i].speaker : i \in 1..Len(l)})
                   ELSE <<>>] :
        k \in SUBSET {"speakers"}, l \in SeqUpTo(TurnPool, MaxTurns)}
    \cup
    {[keys |-> {"speakers"}, segments |-> <<>>,
      speakers |-> <<"SPEAKER_00", "SPEAKER_01">>],
     [keys |-> {"speakers", "segments"}, segments |-> <<>>,
      speakers |-> <<"SPEAKER_01", UNKNOWN, "SPEAKER_00">>],
     [keys |-> {}, segments |-> <<>>, speakers |-> <<>>]}

NoFile ==
    [written |-> FALSE, source_transcript |-> <<>>, source_diarization |-> <<>>,
     speakers |-> <<>>, segments |-> <<>>]

\* paths as the caller spells them: names, "/" and "." are the tokens
TranscriptPaths == { <<".", "/", "out", "/", "/", "t.json">> }
DiarizationPaths == { <<"d.json">> }

\* the components of a relative path: pathlib drops "." and empty components
RECURSIVE Parts(_)
Parts(path) ==
    IF path = <<>> THEN <<>>
    ELSE IF Head(path) \in {"/", "."} THEN Parts(Tail(path))
    ELSE <<Head(path)>> \o Parts(Tail(path))

RECURSIVE JoinParts(_)
JoinParts(parts) ==
    IF Len(parts) = 1 THEN parts
    ELSE <<Head(parts), "/">> \o JoinParts(Tail(parts))

\* merger.py 78-79, 137-138: str(Path(path))
PathStr(path) == IF Parts(path) = <<>> THEN <<".">> ELSE JoinParts(Parts(path))

\* merger.py 91-92, 110-111: the list the first loop iterates
SourceList(doc) ==
    IF "transcription" \in doc.keys THEN doc.transcription
    ELSE IF "segments" \in doc.keys THEN doc.segments
    ELSE <<>>

\* seg.get("offsets", {}).get(key, 0)
Offset(seg, key) ==
    IF "offsets" \in DOMAIN seg /\ key \in DOMAIN seg.offsets
    THEN seg.offsets[key]
    ELSE 0

SegStartMilliseconds(doc, seg) ==
    IF "transcription" \in doc.keys THEN Offset(seg, "from")
    ELSE IF "start" \in DOMAIN seg THEN seg.start ELSE 0

\* merger.py 93-95, 112
SegStart(doc, seg) ==
    IF "transcription" \in doc.keys THEN MsToSeconds(Offset(seg, "from"))
    ELSE IF "start" \in DOMAIN seg THEN seg.start ELSE 0

\* merger.py 94-96, 113
SegEnd(doc, seg) ==
    IF "transcription" \in doc.keys THEN MsToSeconds(Offset(seg, "to"))
    ELSE IF "end" \in DOMAIN seg THEN seg.end ELSE 0

BuildOneKeepBlank(merged, doc, seg, diars) ==
    LET start == SegStart(doc, seg)
        end == SegEnd(doc, seg)
        text == strip(seg.text)
    IN Append(merged,
              [start |-> Round3(start),
               end |-> Round3(end),
               speaker |-> find_dominant_speaker(start, end, diars),
               text |-> text])

\* merger.py 92-108, 111-125: one iteration of the first loop
BuildOne(merged, doc, seg, diars) ==
    LET start == SegStart(doc, seg)
        end == SegEnd(doc, seg)
        text == strip(seg.text)
    IN IF text # <<>>
       THEN Append(merged,
                   [start |-> Round3(start),
                    end |-> Round3(end),
                    speaker |-> find_dominant_speaker(start, end, diars),
                    text |-> text])
       ELSE merged

ConsolidateOneKeepEnd(cons, seg) ==
    IF cons # <<>> /\ cons[Len(cons)].speaker = seg.speaker
    THEN [cons EXCEPT ![Len(cons)].text = JoinSpace(@, seg.text)]
    ELSE Append(cons, seg)

ConsolidateOneNamedOnly(cons, seg) ==
    IF /\ cons # <<>>
       /\ cons[Len(cons)].speaker = seg.speaker
       /\ seg.speaker # UNKNOWN
    THEN [cons EXCEPT ![Len(cons)].end = seg.end,
                      ![Len(cons)].text = JoinSpace(@, seg.text)]
    ELSE Append(cons, seg)

ConsolidateOneDropsText(cons, seg) ==
    IF cons # <<>> /\ cons[Len(cons)].speaker = seg.speaker
    THEN [cons EXCEPT ![Len(cons)].end = seg.end]
    ELSE Append(cons, seg)

\* merger.py 129-134: one iteration of the consolidation loop
ConsolidateOne(cons, seg) ==
    IF cons # <<>> /\ cons[Len(cons)].speaker = seg.speaker
    THEN [cons EXCEPT ![Len(cons)].end = seg.end,
                      ![Len(cons)].text = JoinSpace(@, seg.text)]
    ELSE Append(cons, seg)

MergeIdle ==
    /\ merge_pc = "idle"
    /\ transcript_path = <<>>
    /\ diarization_path = <<>>
    /\ transcript_data = [keys |-> {}, transcription |-> <<>>, segments |-> <<>>]
    /\ diarization_data = [keys |-> {}, segments |-> <<>>, speakers |-> <<>>]
    /\ diar_segments = <<>>
    /\ merged_segments = <<>>
    /\ build_i = 0
    /\ consolidated = <<>>
    /\ cons_i = 0
    /\ merge_result = NoFile
    /\ merge_error = ""
    /\ output_file = NoFile

MergeInit ==
    /\ merge_pc = "load"
    /\ transcript_path \in TranscriptPaths
    /\ diarization_path \in DiarizationPaths
    /\ transcript_data \in TranscriptDocs
    /\ diarization_data \in DiarizationDocs
    /\ diar_segments = <<>>
    /\ merged_segments = <<>>
    /\ build_i = 0
    /\ consolidated = <<>>
    /\ cons_i = 0
    /\ merge_result = NoFile
    /\ merge_error = ""
    /\ output_file = NoFile

\* merger.py 83-88
MergeLoad ==
    /\ merge_pc = "load"
    /\ IF "segments" \in diarization_data.keys
       THEN /\ diar_segments' = diarization_data.segments
            /\ merge_pc' = "build"
            /\ UNCHANGED merge_error
       ELSE /\ merge_error' = "KeyError"
            /\ merge_pc' = "error"
            /\ UNCHANGED diar_segments
    /\ UNCHANGED <<transcript_path, diarization_path,
                   transcript_data, diarization_data, merged_segments, build_i,
                   consolidated, cons_i, merge_result, output_file>>
    /\ UNCHANGED notMerge

\* merger.py 83-84: read_json raises on a missing or malformed input file
MergeReadFailure ==
    /\ merge_pc = "load"
    /\ merge_error' = "ReadError"
    /\ merge_pc' = "error"
    /\ UNCHANGED <<transcript_path, diarization_path,
                   transcript_data, diarization_data, diar_segments,
                   merged_segments, build_i, consolidated, cons_i, merge_result,
                   output_file>>
    /\ UNCHANGED notMerge

\* merger.py 91-125
MergeBuildStep ==
    /\ merge_pc = "build"
    /\ build_i < Len(SourceList(transcript_data))
    /\ merged_segments' =
          BuildOne(merged_segments, transcript_data,
                   SourceList(transcript_data)[build_i + 1], diar_segments)
    /\ build_i' = build_i + 1
    /\ UNCHANGED <<merge_pc, transcript_path, diarization_path,
                   transcript_data, diarization_data, diar_segments,
                   consolidated, cons_i, merge_result, merge_error, output_file>>
    /\ UNCHANGED notMerge

\* merger.py 128: the first loop is over
MergeBuildDone ==
    /\ merge_pc = "build"
    /\ build_i = Len(SourceList(transcript_data))
    /\ merge_pc' = "consolidate"
    /\ consolidated' = <<>>
    /\ UNCHANGED <<transcript_path, diarization_path,
                   transcript_data, diarization_data, diar_segments,
                   merged_segments, build_i, cons_i, merge_result, merge_error,
                   output_file>>
    /\ UNCHANGED notMerge

\* merger.py 129-134
MergeConsolidateStep ==
    /\ merge_pc = "consolidate"
    /\ cons_i < Len(merged_segments)
    /\ consolidated' = ConsolidateOne(consolidated, merged_segments[cons_i + 1])
    /\ cons_i' = cons_i + 1
    /\ UNCHANGED <<merge_pc, transcript_path, diarization_path,
                   transcript_data, diarization_data, diar_segments,
                   merged_segments, build_i, merge_result, merge_error,
                   output_file>>
    /\ UNCHANGED notMerge

MergeSaveRecomputesSpeakers ==
    /\ merge_pc = "consolidate"
    /\ cons_i = Len(merged_segments)
    /\ merge_result' =
          [written |-> TRUE,
           source_transcript |-> PathStr(transcript_path),
           source_diarization |-> PathStr(diarization_path),
           speakers |-> SortedLabels({consolidated[i].speaker :
                                         i \in 1..Len(consolidated)}),
           segments |-> consolidated]
    /\ output_file' = merge_result'
    /\ merge_pc' = "done"
    /\ UNCHANGED <<transcript_path, diarization_path,
                   transcript_data, diarization_data, diar_segments,
                   merged_segments, build_i, consolidated, cons_i, merge_error>>
    /\ UNCHANGED notMerge

MergeSaveRejectEmpty ==
    /\ merge_pc = "consolidate"
    /\ cons_i = Len(merged_segments)
    /\ IF consolidated = <<>>
       THEN /\ merge_error' = "ValueError"
            /\ merge_pc' = "error"
            /\ UNCHANGED <<merge_result, output_file>>
       ELSE /\ merge_result' =
                  [written |-> TRUE,
                   source_transcript |-> PathStr(transcript_path),
                   source_diarization |-> PathStr(diarization_path),
                   speakers |-> IF "speakers" \in diarization_data.keys
                                THEN diarization_data.speakers ELSE <<>>,
                   segments |-> consolidated]
            /\ output_file' = merge_result'
            /\ merge_pc' = "done"
            /\ UNCHANGED merge_error
    /\ UNCHANGED <<transcript_path, diarization_path,
                   transcript_data, diarization_data, diar_segments,
                   merged_segments, build_i, consolidated, cons_i>>
    /\ UNCHANGED notMerge

\* merger.py 136-148
MergeSave ==
    /\ merge_pc = "consolidate"
    /\ cons_i = Len(merged_segments)
    /\ merge_result' =
          [written |-> TRUE,
           source_transcript |-> PathStr(transcript_path),
           source_diarization |-> PathStr(diarization_path),
           speakers |-> IF "speakers" \in diarization_data.keys
                        THEN diarization_data.speakers ELSE <<>>,
           segments |-> consolidated]
    /\ output_file' = merge_result'
    /\ merge_pc' = "done"
    /\ UNCHANGED <<transcript_path, diarization_path,
                   transcript_data, diarization_data, diar_segments,
                   merged_segments, build_i, consolidated, cons_i, merge_error>>
    /\ UNCHANGED notMerge

MergeNext ==
    \/ MergeLoad
    \/ MergeReadFailure
    \/ MergeBuildStep
    \/ MergeBuildDone
    \/ MergeConsolidateStep
    \/ MergeSave

\* ------------------------------------------------- claims: merge_transcript
AllWhitespace(t) == \A i \in 1..Len(t) : t[i] \in Whitespace

\* the segments with non-empty trimmed text, each with its dominant speaker
RECURSIVE RefAssigned(_, _, _)
RefAssigned(doc, list, diars) ==
    IF list = <<>> THEN <<>>
    ELSE LET seg == Head(list)
             rest == RefAssigned(doc, Tail(list), diars)
         IN IF AllWhitespace(seg.text) THEN rest
            ELSE <<[start |-> Round3(SegStart(doc, seg)),
                    end |-> Round3(SegEnd(doc, seg)),
                    speaker |-> find_dominant_speaker(SegStart(doc, seg),
                                                      SegEnd(doc, seg), diars),
                    text |-> strip(seg.text)]>> \o rest

RECURSIVE JoinTexts(_)
JoinTexts(list) ==
    IF Len(list) = 1 THEN list[1].text
    ELSE list[1].text \o <<" ">> \o JoinTexts(Tail(list))

\* length of the run of same-speaker segments that starts the list
RunLength(list) ==
    CHOOSE n \in 1..Len(list) :
        /\ \A j \in 1..n : list[j].speaker = list[1].speaker
        /\ n < Len(list) => list[n + 1].speaker # list[1].speaker

\* the reference consolidation: each maximal run of consecutive segments of
\* one speaker becomes one segment
RECURSIVE RefConsolidate(_)
RefConsolidate(list) ==
    IF list = <<>> THEN <<>>
    ELSE LET n == RunLength(list)
         IN <<[start |-> list[1].start,
               end |-> list[n].end,
               speaker |-> list[1].speaker,
               text |-> JoinTexts(SubSeq(list, 1, n))]>>
            \o RefConsolidate(SubSeq(list, n + 1, Len(list)))

RefMerge ==
    RefConsolidate(RefAssigned(transcript_data, SourceList(transcript_data),
                               diarization_data.segments))

\* [{0,2,A,hi},{2,4,A,there},{4,6,B,hey}] on the model's grid
ConsolidationExample ==
    /\ transcript_data.keys = {"segments"}
    /\ transcript_data.segments =
          <<[start |-> 0, end |-> TicksPerMs, text |-> hi],
            [start |-> 1, end |-> 2 * TicksPerMs - 1, text |-> yo_padded],
            [start |-> 2 * TicksPerMs, end |-> 2 * TicksPerMs, text |-> hi]>>
    /\ diarization_data.segments =
          <<[start |-> 0, end |-> 2 * TicksPerMs, speaker |-> "SPEAKER_01"]>>

\* C4: the consolidated list is the reference consolidation of the non-blank
\* segments with their dominant speakers: a same-speaker segment extends the
\* last output segment (end, text + " " + text), another speaker starts a new
\* one, and blank segments are skipped without breaking a run.
C4_ConsolidationIsReference ==
    /\ merge_pc = "done" =>
          /\ merge_result.segments = RefMerge
          /\ output_file.segments = RefMerge
    /\ (merge_pc = "done" /\ ConsolidationExample) =>
          merge_result.segments =
             <<[start |-> 0, end |-> 2 * TicksPerMs, speaker |-> "SPEAKER_01",
                text |-> hi \o <<" ">> \o yo],
               [start |-> 2 * TicksPerMs, end |-> 2 * TicksPerMs,
                speaker |-> UNKNOWN, text |-> hi]>>

\* a blank segment between two segments of one speaker, merged into one
C4_Witness ==
    /\ merge_pc = "done"
    /\ Len(SourceList(transcript_data)) = 3
    /\ ~AllWhitespace(SourceList(transcript_data)[1].text)
    /\ AllWhitespace(SourceList(transcript_data)[2].text)
    /\ ~AllWhitespace(SourceList(transcript_data)[3].text)
    /\ Len(merge_result.segments) = 1
    /\ merge_result.segments[1].speaker \in Speakers
    /\ merge_result.segments[1].text = hi \o <<" ">> \o yo
    /\ merge_result.segments[1].start < merge_result.segments[1].end

RecognizedInput ==
    /\ "segments" \in diarization_data.keys
    /\ transcript_data.keys \cap {"transcription", "segments"} # {}

\* C6: merge_transcript succeeds, or writes an output document, only for a
\* diarization with a segments list and a transcript of a recognized shape.
C6_FailsOnUnrecognizedInput ==
    (merge_pc = "done" \/ output_file.written) => RecognizedInput

\* every input segment is an interval: 0 <= start <= end
InputIntervals ==
    \A i \in 1..Len(SourceList(transcript_data)) :
        LET seg == SourceList(transcript_data)[i]
        IN /\ 0 <= SegStart(transcript_data, seg)
           /\ SegStart(transcript_data, seg) <= SegEnd(transcript_data, seg)

\* C11: every segment of the result is an interval, start <= end, whatever
\* the order in which the transcript's segments (each with 0 <= start <= end)
\* arrive, and for every diarization.
C11_ResultIntervals ==
    (merge_pc = "done" /\ InputIntervals) =>
        \A i \in 1..Len(merge_result.segments) :
            merge_result.segments[i].start <= merge_result.segments[i].end

\* the segments of the list the transcript holds, under either field
InputSegments ==
    IF transcript_data.transcription # <<>> THEN transcript_data.transcription
    ELSE transcript_data.segments

NonBlankCount(list) ==
    Cardinality({i \in 1..Len(list) : ~AllWhitespace(list[i].text)})

\* C15: the result never has more segments than the input transcript, nor
\* more than the input segments with non-empty trimmed text.
C15_CountNeverGrows ==
    merge_pc = "done" =>
        /\ Len(merge_result.segments) <= Len(InputSegments)
        /\ Len(merge_result.segments) <= NonBlankCount(SourceList(transcript_data))
        /\ Len(output_file.segments) = Len(merge_result.segments)

\* three non-blank segments consolidated into two
C15_Witness ==
    /\ merge_pc = "done"
    /\ Len(SourceList(transcript_data)) = 3
    /\ NonBlankCount(SourceList(transcript_data)) = 3
    /\ Len(merge_result.segments) = 2

\* a transcript of a recognized shape without a non-blank segment, read
\* together with a diarization that has its segment list
EmptyTranscript ==
    /\ transcript_data.keys \cap {"transcription", "segments"} # {}
    /\ NonBlankCount(SourceList(transcript_data)) = 0
    /\ "segments" \in diarization_data.keys
    /\ merge_error # "ReadError"

\* C16: a transcript of a recognized shape with no segment of non-empty
\* trimmed text raises no error; the result has an empty segment list and
\* that empty-segment document is what is written.
C16_EmptyTranscriptSucceeds ==
    EmptyTranscript =>
        /\ merge_pc # "error"
        /\ merge_error = ""
        /\ merged_segments = <<>>
        /\ merge_pc = "done" =>
              /\ merge_result.segments = <<>>
              /\ output_file.written
              /\ output_file.segments = <<>>
              /\ output_file.speakers = diarization_data.speakers

\* blank segments only, a diarization with turns, and the empty document
\* written
C16_Witness ==
    /\ merge_pc = "done"
    /\ EmptyTranscript
    /\ Len(SourceList(transcript_data)) = 2
    /\ diarization_data.segments # <<>>
    /\ output_file.written
    /\ output_file.segments = <<>>

\* one segment in seconds: shape A offsets are milliseconds, a missing
\* offset or time counts as 0
InSeconds(shape, seg) ==
    IF shape = "A"
    THEN [start |-> (IF "offsets" \in DOMAIN seg /\ "from" \in DOMAIN seg.offsets
                     THEN seg.offsets.from * TicksPerMs ELSE 0),
          end |-> (IF "offsets" \in DOMAIN seg /\ "to" \in DOMAIN seg.offsets
                   THEN seg.offsets.to * TicksPerMs ELSE 0),
          text |-> seg.text]
    ELSE [start |-> (IF "start" \in DOMAIN seg THEN seg.start ELSE 0),
          end |-> (IF "end" \in DOMAIN seg THEN seg.end ELSE 0),
          text |-> seg.text]

\* shape detection: the nested-offset field first, else the flat field
Normalized(doc) ==
    IF "transcription" \in doc.keys
    THEN [i \in 1..Len(doc.transcription) |->
             InSeconds("A", doc.transcription[i])]
    ELSE IF "segments" \in doc.keys
    THEN [i \in 1..Len(doc.segments) |-> InSeconds("B", doc.segments[i])]
    ELSE <<>>

\* the same segments as a shape B document
AsShapeB(doc) ==
    [keys |-> {"segments"}, transcription |-> <<>>, segments |-> Normalized(doc)]

RECURSIVE MergedOf(_, _, _)
MergedOf(doc, list, diars) ==
    IF list = <<>> THEN <<>>
    ELSE BuildOne(MergedOf(doc, SubSeq(list, 1, Len(list) - 1), diars),
                  doc, list[Len(list)], diars)

RECURSIVE ConsolidatedOf(_)
ConsolidatedOf(list) ==
    IF list = <<>> THEN <<>>
    ELSE ConsolidateOne(ConsolidatedOf(SubSeq(list, 1, Len(list) - 1)),
                        list[Len(list)])

\* the segments merge_transcript returns for a document
MergeOf(doc, diars) == ConsolidatedOf(MergedOf(doc, SourceList(doc), diars))

\* the non-blank segments of a list in seconds, each with its speaker
RECURSIVE AssignedInSeconds(_, _)
AssignedInSeconds(list, diars) ==
    IF list = <<>> THEN <<>>
    ELSE LET seg == Head(list)
             rest == AssignedInSeconds(Tail(list), diars)
         IN IF AllWhitespace(seg.text) THEN rest
            ELSE <<[start |-> Round3(seg.start),
                    end |-> Round3(seg.end),
                    speaker |-> find_dominant_speaker(seg.start, seg.end, diars),
                    text |-> strip(seg.text)]>> \o rest

\* C18: `transcription` is looked for first and, when present, is the only
\* list read; its times are offsets.from / offsets.to divided by 1000, a
\* missing offset counting as 0, while `segments` times are seconds as they
\* are; the same segments in shape A and in shape B give identical result
\* segments.
C18_ShapeHandling ==
    /\ merge_pc \in {"build", "consolidate", "done"} =>
          /\ "transcription" \in transcript_data.keys =>
                SourceList(transcript_data) = transcript_data.transcription
          /\ ("transcription" \notin transcript_data.keys
              /\ "segments" \in transcript_data.keys) =>
                SourceList(transcript_data) = transcript_data.segments
          /\ \A i \in 1..build_i :
                LET seg == SourceList(transcript_data)[i]
                    shape == IF "transcription" \in transcript_data.keys
                             THEN "A" ELSE "B"
                IN /\ SegStart(transcript_data, seg) = InSeconds(shape, seg).start
                   /\ SegEnd(transcript_data, seg) = InSeconds(shape, seg).end
    /\ merge_pc = "done" =>
          /\ merge_result.segments =
                RefConsolidate(AssignedInSeconds(Normalized(transcript_data),
                                                 diarization_data.segments))
          /\ merge_result.segments =
                MergeOf(AsShapeB(transcript_data), diarization_data.segments)

\* both fields present: the shape A segment, its `from` offset missing, is
\* the one merged and the shape B segment is ignored
C18_Witness ==
    /\ merge_pc = "done"
    /\ transcript_data.keys = {"transcription", "segments"}
    /\ Len(transcript_data.transcription) = 1
    /\ "from" \notin DOMAIN transcript_data.transcription[1].offsets
    /\ Len(transcript_data.segments) = 1
    /\ strip(transcript_data.segments[1].text) = yo
    /\ Len(merge_result.segments) = 1
    /\ merge_result.segments[1].text = hi
    /\ merge_result.segments[1].start = 0
    /\ merge_result.segments[1].end = 2 * TicksPerMs

\* the speakers list of the diarization document, [] without the field
InputSpeakers ==
    IF "speakers" \in diarization_data.keys THEN diarization_data.speakers
    ELSE <<>>

AssignedLabels ==
    {merge_result.segments[i].speaker : i \in 1..Len(merge_result.segments)}

\* the names along a path, in order
RECURSIVE Names(_)
Names(path) ==
    IF path = <<>> THEN <<>>
    ELSE IF Head(path) = "/" \/ Head(path) = "." THEN Names(Tail(path))
    ELSE <<Head(path)>> \o Names(Tail(path))

\* two spellings of one relative path, the first without "." components,
\* doubled or trailing separators
SpellsPath(text, path) ==
    /\ Names(text) = Names(path)
    /\ Len(text) = 2 * Len(Names(path)) - 1
    /\ \A i \in 1..Len(text) : (text[i] = "/") <=> (i % 2 = 0)

\* C20: the result's speakers are the diarization document's speakers list,
\* same labels in the same order, not the labels assigned to segments: labels
\* assigned to no segment stay, UNKNOWN is there only if the input had it;
\* source_transcript and source_diarization are the two input paths.
C20_SpeakersAndProvenance ==
    merge_pc = "done" =>
        /\ merge_result.speakers = InputSpeakers
        /\ Len(merge_result.speakers) = Len(InputSpeakers)
        /\ \A i \in 1..Len(InputSpeakers) :
              merge_result.speakers[i] = InputSpeakers[i]
        /\ (\E i \in 1..Len(merge_result.speakers) :
               merge_result.speakers[i] = UNKNOWN) =>
              (\E i \in 1..Len(InputSpeakers) : InputSpeakers[i] = UNKNOWN)
        /\ SpellsPath(merge_result.source_transcript, transcript_path)
        /\ SpellsPath(merge_result.source_diarization, diarization_path)
        /\ output_file = merge_result

\* every segment got UNKNOWN, yet the speakers list has both labels of the
\* diarization and no UNKNOWN
C20_Witness ==
    /\ merge_pc = "done"
    /\ merge_result.speakers = <<"SPEAKER_00", "SPEAKER_01">>
    /\ merge_result.segments # <<>>
    /\ AssignedLabels = {UNKNOWN}
    /\ transcript_path # merge_result.source_transcript

\* the input segments whose trimmed text is not empty, as they were read
NonBlankSeg(seg) == ~AllWhitespace(seg.text)
Kept == SelectSeq(SourceList(transcript_data), NonBlankSeg)

\* the speaker the matcher gives an input segment
SpeakerOf(seg) ==
    find_dominant_speaker(SegStart(transcript_data, seg),
                          SegEnd(transcript_data, seg),
                          diarization_data.segments)

RECURSIVE SpeakersOf(_)
SpeakersOf(list) ==
    IF list = <<>> THEN <<>>
    ELSE <<SpeakerOf(Head(list))>> \o SpeakersOf(Tail(list))

\* the positions in a list of speakers where a run of one speaker begins
RunStarts(spk) == {i \in 1..Len(spk) : i = 1 \/ spk[i] # spk[i - 1]}

\* first and last position of the k-th run
RunStart(spk, k) ==
    CHOOSE i \in RunStarts(spk) :
        Cardinality({j \in RunStarts(spk) : j <= i}) = k
RunEnd(spk, k) ==
    IF k = Cardinality(RunStarts(spk)) THEN Len(spk)
    ELSE RunStart(spk, k + 1) - 1

NoAdjacentSameSpeaker(list) ==
    \A i \in 1..(Len(list) - 1) : list[i].speaker # list[i + 1].speaker

\* C24: no two adjacent output segments have the same speaker; the output
\* segments are the maximal runs of consecutive same-speaker segments, one
\* segment per run, and a run of UNKNOWN segments is consolidated like any
\* other.
C24_MaximalRuns ==
    /\ NoAdjacentSameSpeaker(consolidated)
    /\ merge_pc = "done" =>
          LET spk == SpeakersOf(Kept)
              out == merge_result.segments
          IN /\ NoAdjacentSameSpeaker(out)
             /\ output_file.segments = out
             /\ Len(out) = Cardinality(RunStarts(spk))
             /\ \A k \in 1..Len(out) :
                   \A i \in RunStart(spk, k)..RunEnd(spk, k) :
                       spk[i] = out[k].speaker

\* two segments that no speaker turn overlaps, then one with a speaker: the
\* two UNKNOWN segments became one
C24_Witness ==
    /\ merge_pc = "done"
    /\ Len(Kept) = 3
    /\ SpeakersOf(Kept)[1] = UNKNOWN
    /\ SpeakersOf(Kept)[2] = UNKNOWN
    /\ SpeakersOf(Kept)[3] # UNKNOWN
    /\ Len(merge_result.segments) = 2
    /\ merge_result.segments[1].speaker = UNKNOWN

\* texts joined with single spaces; nothing for no text
RECURSIVE JoinAll(_)
JoinAll(texts) ==
    IF texts = <<>> THEN <<>>
    ELSE IF Len(texts) = 1 THEN texts[1]
    ELSE texts[1] \o <<" ">> \o JoinAll(Tail(texts))

RECURSIVE TextsOf(_)
TextsOf(list) ==
    IF list = <<>> THEN <<>>
    ELSE <<strip(Head(list).text)>> \o TextsOf(Tail(list))

\* the output has one segment per run; its text is the run's trimmed texts
\* joined, so that all output texts joined are all kept input texts joined
TextPreserved(kept, spk, out) ==
    /\ Len(out) = Cardinality(RunStarts(spk))
    /\ JoinAll(TextsOf(out)) = JoinAll(TextsOf(kept))
    /\ \A k \in 1..Len(out) :
          out[k].text
             = JoinAll(SubSeq(TextsOf(kept), RunStart(spk, k), RunEnd(spk, k)))

\* C25 as stated: the joined output texts are the joined trimmed non-empty
\* input texts, and each output segment starts at the start of the first
\* input segment of its run and ends at the end of the last.
C25_TextAndInputTimes ==
    merge_pc = "done" =>
        LET kept == Kept
            spk == SpeakersOf(kept)
            out == merge_result.segments
        IN /\ TextPreserved(kept, spk, out)
           /\ \A k \in 1..Len(out) :
                 /\ out[k].start
                       = SegStart(transcript_data, kept[RunStart(spk, k)])
                 /\ out[k].end
                       = SegEnd(transcript_data, kept[RunEnd(spk, k)])

\* C25 (amended): the joined output texts are the joined trimmed non-empty
\* input texts, and each output segment starts at the start of the first
\* input segment of its run and ends at the end of the last, both rounded to
\* the millisecond.
C25_TextAndRoundedTimes ==
    merge_pc = "done" =>
        LET kept == Kept
            spk == SpeakersOf(kept)
            out == merge_result.segments
        IN /\ TextPreserved(kept, spk, out)
           /\ \A k \in 1..Len(out) :
                 /\ out[k].start
                       = Round3(SegStart(transcript_data,
                                         kept[RunStart(spk, k)]))
                 /\ out[k].end
                       = Round3(SegEnd(transcript_data, kept[RunEnd(spk, k)]))

\* a run of two segments whose first starts, and whose last ends, between
\* two milliseconds
C25_Witness ==
    /\ merge_pc = "done"
    /\ Len(Kept) >= 2
    /\ Len(merge_result.segments) = 1
    /\ SegStart(transcript_data, Kept[1]) % TicksPerMs # 0
    /\ SegEnd(transcript_data, Kept[Len(Kept)]) % TicksPerMs # 0
    /\ merge_result.segments[1].start # SegStart(transcript_data, Kept[1])
    /\ merge_result.segments[1].text # strip(Kept[1].text)

\* ------------------------------------------------- remove_repeated_segments
MaxFilterSegs == 5            \* segments handed to the filter
MaxLimit == 3                 \* values of max_consecutive_similar: 1..MaxLimit

\* str.lower() on one character
Lower(c) ==
    CASE c = "A" -> "a"
      [] c = "B" -> "b"
      [] OTHER -> c

LowerStr(t) == [i \in 1..Len(t) |-> Lower(t[i])]

\* str.split(): the maximal runs of non-whitespace characters, in order
RECURSIVE Split(_)
Split(t) ==
    LET u == lstrip(t)
    IN IF u = <<>> THEN <<>>
       ELSE LET n == CHOOSE k \in 1..Len(u) :
                        /\ \A j \in 1..k : u[j] \notin Whitespace
                        /\ k < Len(u) => u[k + 1] \in Whitespace
            IN <<SubSeq(u, 1, n)>> \o Split(SubSeq(u, n + 1, Len(u)))

SeqToSet(q) == {q[i] : i \in 1..Len(q)}

Zero == [num |-> 0, den |-> 1]

\* a >= b on ratios with positive denominators
RatioGeq(a, b) == a.num * b.den >= b.num * a.den

\* cleaning.py 132-158
_text_similarity(text1, text2) ==
    IF text1 = <<>> \/ text2 = <<>> THEN Zero
    ELSE LET t1 == Split(LowerStr(text1))
             t2 == Split(LowerStr(text2))
         IN IF t1 = <<>> \/ t2 = <<>> THEN Zero
            ELSE LET set1 == SeqToSet(t1)
                     set2 == SeqToSet(t2)
                     intersection == Cardinality(set1 \cap set2)
                     union == Cardinality(set1 \cup set2)
                 IN IF union > 0
                    THEN [num |-> intersection, den |-> union]
                    ELSE Zero

\* seg.get("text", "")
TextOf(seg) == IF "text" \in DOMAIN seg THEN seg.text ELSE <<>>

FilterOneEmptyResets(st, seg, threshold, limit) ==
    LET text == strip(TextOf(seg))
        similarity == _text_similarity(text, st.last_text)
        similar == RatioGeq(similarity, threshold)
        count == IF similar THEN st.consecutive_similar + 1 ELSE 0
    IN IF text = <<>> THEN [st EXCEPT !.consecutive_similar = 0]
       ELSE IF similar /\ count >= limit
       THEN [st EXCEPT !.consecutive_similar = count]
       ELSE [cleaned |-> Append(st.cleaned, seg),
             consecutive_similar |-> count,
             last_text |-> text]

FilterOneStrict(st, seg, threshold, limit) ==
    LET text == strip(TextOf(seg))
        similarity == _text_similarity(text, st.last_text)
        similar == RatioGeq(similarity, threshold)
        count == IF similar THEN st.consecutive_similar + 1 ELSE 0
    IN IF text = <<>> THEN st
       ELSE IF similar /\ count > limit
       THEN [st EXCEPT !.consecutive_similar = count]
       ELSE [cleaned |-> Append(st.cleaned, seg),
             consecutive_similar |-> count,
             last_text |-> text]

FilterOneForgetful(st, seg, threshold, limit) ==
    LET text == strip(TextOf(seg))
        similarity == _text_similarity(text, st.last_text)
        similar == RatioGeq(similarity, threshold)
        count == IF similar THEN st.consecutive_similar + 1 ELSE 0
    IN IF text = <<>> THEN st
       ELSE IF similar /\ count >= limit
       THEN [st EXCEPT !.consecutive_similar = 0]
       ELSE [cleaned |-> Append(st.cleaned, seg),
             consecutive_similar |-> count,
             last_text |-> text]

FilterOneStoresTrimmed(st, seg, threshold, limit) ==
    LET text == strip(TextOf(seg))
        similarity == _text_similarity(text, st.last_text)
        similar == RatioGeq(similarity, threshold)
        count == IF similar THEN st.consecutive_similar + 1 ELSE 0
    IN IF text = <<>> THEN st
       ELSE IF similar /\ count >= limit
       THEN [st EXCEPT !.consecutive_similar = count]
       ELSE [cleaned |-> Append(st.cleaned, [seg EXCEPT !.text = text]),
             consecutive_similar |-> count,
             last_text |-> text]

\* cleaning.py 70-91: one iteration of the loop, on the loop's three locals
FilterOne(st, seg, threshold, limit) ==
    LET text == strip(TextOf(seg))
        similarity == _text_similarity(text, st.last_text)
        similar == RatioGeq(similarity, threshold)
        count == IF similar THEN st.consecutive_similar + 1 ELSE 0
    IN IF text = <<>> THEN st
       ELSE IF similar /\ count >= limit
       THEN [st EXCEPT !.consecutive_similar = count]
       ELSE [cleaned |-> Append(st.cleaned, seg),
             consecutive_similar |-> count,
             last_text |-> text]

FilterTexts ==
    { <<"a", " ", "b">>, <<"A", " ", "b", " ">>, <<"a">>, <<" ">> }

\* cleaning.py 50: the default 0.9, and a laxer 0.5
Thresholds == { [num |-> 9, den |-> 10], [num |-> 1, den |-> 2] }

\* segment i carries its position as its start time; a blank segment at an
\* even position has no text field at all
SegmentLists ==
    { [i \in 1..Len(ts) |->
          IF ts[i] = <<" ">> /\ i % 2 = 0 THEN [start |-> i]
          ELSE [start |-> i, text |-> ts[i]]] :
        ts \in SeqUpTo(FilterTexts, MaxFilterSegs) }

FilterIdle ==
    /\ filter_pc = "idle"
    /\ segments = <<>>
    /\ similarity_threshold = Zero
    /\ max_consecutive_similar = 0
    /\ filter_i = 0
    /\ cleaned = <<>>
    /\ consecutive_similar = 0
    /\ last_text = <<>>
    /\ filter_result = <<>>

\* cleaning.py 48-68
FilterInit ==
    /\ filter_pc = "loop"
    /\ segments \in SegmentLists
    /\ similarity_threshold \in Thresholds
    /\ max_consecutive_similar \in 1..MaxLimit
    /\ filter_i = 0
    /\ cleaned = <<>>
    /\ consecutive_similar = 0
    /\ last_text = <<>>
    /\ filter_result = <<>>

\* cleaning.py 70-91
FilterStep ==
    /\ filter_pc = "loop"
    /\ filter_i < Len(segments)
    /\ LET st == FilterOne([cleaned |-> cleaned,
                            consecutive_similar |-> consecutive_similar,
                            last_text |-> last_text],
                           segments[filter_i + 1], similarity_threshold,
                           max_consecutive_similar)
       IN /\ cleaned' = st.cleaned
          /\ consecutive_similar' = st.consecutive_similar
          /\ last_text' = st.last_text
    /\ filter_i' = filter_i + 1
    /\ UNCHANGED <<filter_pc, segments, similarity_threshold,
                   max_consecutive_similar, filter_result>>
    /\ UNCHANGED notFilter

\* cleaning.py 63-64, 93-97
FilterReturn ==
    /\ filter_pc = "loop"
    /\ filter_i = Len(segments)
    /\ filter_result' = IF segments = <<>> THEN segments ELSE cleaned
    /\ filter_pc' = "done"
    /\ UNCHANGED <<segments, similarity_threshold, max_consecutive_similar,
                   filter_i, cleaned, consecutive_similar, last_text>>
    /\ UNCHANGED notFilter

FilterNext == FilterStep \/ FilterReturn

\* ----------------------------------------- claims: remove_repeated_segments
\* case-folded, whitespace-tokenized word set
WordSet(t) == SeqToSet(Split(LowerStr(t)))

\* Jaccard similarity >= threshold; the similarity is 0 without tokens
JaccardAtLeast(a, b, threshold) ==
    LET wa == WordSet(a)
        wb == WordSet(b)
    IN IF wa = {} \/ wb = {}
       THEN 0 >= threshold.num
       ELSE Cardinality(wa \cap wb) * threshold.den
               >= threshold.num * Cardinality(wa \cup wb)

Retained(i) == \E j \in 1..Len(filter_result) : filter_result[j] = segments[i]

\* segments a..b carry one identical non-empty text
IdenticalRun(a, b) ==
    /\ ~AllWhitespace(TextOf(segments[a]))
    /\ \A i \in a..b : TextOf(segments[i]) = TextOf(segments[a])

\* the text of the last segment emitted before position a
EmittedBefore(a) ==
    LET kept == {i \in 1..(a - 1) : Retained(i)}
    IN IF kept = {} THEN <<>>
       ELSE strip(TextOf(segments[CHOOSE i \in kept : \A j \in kept : j <= i]))

\* the run starts the output or follows an emitted segment unlike it
FreshRun(a) ==
    ~JaccardAtLeast(strip(TextOf(segments[a])), EmittedBefore(a),
                    similarity_threshold)

FiveRepeats ==
    /\ Len(segments) = 5
    /\ IdenticalRun(1, 5)
    /\ max_consecutive_similar = 3
    /\ similarity_threshold = [num |-> 9, den |-> 10]

\* C5 as stated: of a run of k >= max_consecutive_similar identical segments
\* exactly the first max_consecutive_similar - 1 are retained.
C5_RetainsLimitMinusOne ==
    filter_pc = "done" =>
        \A a \in 1..Len(segments) : \A b \in a..Len(segments) :
            (/\ IdenticalRun(a, b)
             /\ FreshRun(a)
             /\ b - a + 1 >= max_consecutive_similar) =>
                {i \in a..b : Retained(i)}
                    = a..(a + max_consecutive_similar - 2)

\* C5 (amended): of a run of k >= max_consecutive_similar identical non-empty
\* segments that is not similar to the segment emitted before it, exactly the
\* first max_consecutive_similar are retained; 5 repeats with limit 3 keep 3.
C5_RetainsLimit ==
    /\ filter_pc = "done" =>
          \A a \in 1..Len(segments) : \A b \in a..Len(segments) :
              (/\ IdenticalRun(a, b)
               /\ FreshRun(a)
               /\ b - a + 1 >= max_consecutive_similar) =>
                  {i \in a..b : Retained(i)}
                      = a..(a + max_consecutive_similar - 1)
    /\ (filter_pc = "done" /\ FiveRepeats) => Len(filter_result) = 3

C5_Witness ==
    /\ filter_pc = "done"
    /\ FiveRepeats
    /\ Len(filter_result) = 3
    /\ ~Retained(4)
    /\ ~Retained(5)

\* the segment visited by the next iteration
Current == segments[filter_i + 1]

Emitted ==
    /\ cleaned' = Append(cleaned, Current)
    /\ last_text' = strip(TextOf(Current))

Dropped == cleaned' = cleaned /\ last_text' = last_text

SimilarToLast ==
    JaccardAtLeast(strip(TextOf(Current)), last_text, similarity_threshold)

FilterProtocolStep ==
    (filter_i' = filter_i + 1 /\ ~AllWhitespace(TextOf(Current))) =>
        /\ SimilarToLast =>
              /\ consecutive_similar' = consecutive_similar + 1
              /\ consecutive_similar' >= max_consecutive_similar => Dropped
              /\ consecutive_similar' < max_consecutive_similar => Emitted
        /\ ~SimilarToLast =>
              /\ consecutive_similar' = 0
              /\ Emitted
        \* after a drop, a similar segment is dropped too
        /\ (SimilarToLast /\ consecutive_similar >= max_consecutive_similar)
              => Dropped

\* C10: the scan starts with counter 0 and no emitted text; a non-empty
\* segment similar to the last emitted text increments the counter and is
\* dropped exactly when the counter has reached the limit, a drop leaving the
\* last emitted text unchanged; a dissimilar one resets the counter to 0 and
\* is emitted; so after a drop similar segments keep being dropped.
C10_FilterProtocol ==
    /\ (filter_pc = "loop" /\ filter_i = 0) =>
          (consecutive_similar = 0 /\ last_text = <<>> /\ cleaned = <<>>)
    /\ [][FilterProtocolStep]_vars

\* two drops in a row, then a dissimilar segment is emitted again
C10_Witness ==
    /\ filter_pc = "loop"
    /\ filter_i >= 4
    /\ consecutive_similar = 0
    /\ Len(cleaned) >= 2
    /\ ~AllWhitespace(TextOf(segments[filter_i - 1]))
    /\ ~AllWhitespace(TextOf(segments[filter_i - 2]))
    /\ cleaned[Len(cleaned)] = segments[filter_i]
    /\ cleaned[Len(cleaned) - 1].start = filter_i - 3

\* a segment whose trimmed text is empty, or that has no text field
EmptySegment(seg) == "text" \notin DOMAIN seg \/ AllWhitespace(seg.text)

\* the list with its empty segments taken out
RECURSIVE WithoutEmpty(_)
WithoutEmpty(list) ==
    IF list = <<>> THEN <<>>
    ELSE IF EmptySegment(Head(list)) THEN WithoutEmpty(Tail(list))
    ELSE <<Head(list)>> \o WithoutEmpty(Tail(list))

\* the loop's locals after the loop has visited the whole list
RECURSIVE FilterLocals(_)
FilterLocals(list) ==
    IF list = <<>>
    THEN [cleaned |-> <<>>, consecutive_similar |-> 0, last_text |-> <<>>]
    ELSE FilterOne(FilterLocals(SubSeq(list, 1, Len(list) - 1)),
                   list[Len(list)], similarity_threshold,
                   max_consecutive_similar)

EmptyStepChangesNothing ==
    (filter_i' = filter_i + 1 /\ EmptySegment(Current)) =>
        /\ cleaned' = cleaned
        /\ consecutive_similar' = consecutive_similar
        /\ last_text' = last_text

\* C19: a segment whose trimmed text is empty, or without a text field, is
\* dropped whatever the counter and changes neither the counter nor the last
\* emitted text; every other segment is decided as if the empty segments
\* were not in the input.
C19_EmptySegmentsIgnored ==
    /\ [](filter_pc \in {"loop", "done"} =>
            /\ [cleaned |-> cleaned,
                consecutive_similar |-> consecutive_similar,
                last_text |-> last_text]
                  = FilterLocals(WithoutEmpty(SubSeq(segments, 1, filter_i)))
            /\ \A j \in 1..Len(cleaned) : ~EmptySegment(cleaned[j]))
    /\ [](filter_pc = "done" =>
            filter_result = FilterLocals(WithoutEmpty(segments)).cleaned)
    /\ [][EmptyStepChangesNothing]_vars

\* a segment without text field and a blank one inside a run of identical
\* segments: the counter runs across them and the run's last member is
\* dropped
C19_Witness ==
    /\ filter_pc = "done"
    /\ max_consecutive_similar = 2
    /\ Len(segments) = 5
    /\ IdenticalRun(1, 1)
    /\ "text" \notin DOMAIN segments[2]
    /\ "text" \in DOMAIN segments[3]
    /\ EmptySegment(segments[3])
    /\ TextOf(segments[4]) = TextOf(segments[1])
    /\ TextOf(segments[5]) = TextOf(segments[1])
    /\ filter_result = <<segments[1], segments[4]>>

\* a is b with some elements left out
RECURSIVE IsSubsequence(_, _)
IsSubsequence(a, b) ==
    IF a = <<>> THEN TRUE
    ELSE IF b = <<>> THEN FALSE
    ELSE IF Head(a) = Head(b) THEN IsSubsequence(Tail(a), Tail(b))
    ELSE IsSubsequence(a, Tail(b))

\* what remove_repeated_segments returns for a list, with the parameters of
\* the run
FilterOf(list) == IF list = <<>> THEN list ELSE FilterLocals(list).cleaned

\* C26: the output is a subsequence of the input, made of the input's own
\* segments in their order; the input list is not modified; and filtering
\* the output again with the same parameters removes nothing.
C26_IdempotentSubsequence ==
    /\ [](filter_pc = "done" =>
            /\ filter_result = FilterOf(segments)
            /\ IsSubsequence(filter_result, segments)
            /\ \A j \in 1..Len(filter_result) :
                  /\ filter_result[j] = segments[filter_result[j].start]
                  /\ j > 1 =>
                        filter_result[j - 1].start < filter_result[j].start
            /\ FilterOf(filter_result) = filter_result)
    /\ [][segments' = segments]_vars

\* a run from which segments were dropped: the output still holds similar
\* neighbours, one of them with padded text, and filtering it again keeps
\* all of it
C26_Witness ==
    /\ filter_pc = "done"
    /\ max_consecutive_similar = 2
    /\ Len(segments) = 5
    /\ Len(WithoutEmpty(segments)) = 5
    /\ Len(filter_result) = 3
    /\ \E j \in 1..3 : TextOf(filter_result[j]) # strip(TextOf(filter_result[j]))
    /\ FilterOf(filter_result) = filter_result

\* ---------------------------------------------------- clean_transcript_text
MaxCleanLen == 8              \* characters of a short input text

TailPhraseMin == 20           \* (.{20,}?)
TailExtraRepeats == 2         \* \1{2,}

SentenceEnd == {".", "!", "?"}

\* re.sub(r"(.{20,}?)\1{2,}$", r"\1", text): the leftmost start from which the
\* rest of the text is one phrase of >= 20 characters, the shortest such,
\* repeated >= 3 times up to the end; the tail is replaced by one occurrence
TailMatch(text, i, len) ==
    LET rest == Len(text) - i + 1
    IN /\ len >= TailPhraseMin
       /\ rest % len = 0
       /\ rest \div len >= 1 + TailExtraRepeats
       /\ \A j \in (i + len)..Len(text) : text[j] = text[j - len]

SubRepeatedTail(text) ==
    LET lens == TailPhraseMin..Len(text)
        starts == {i \in 1..Len(text) : \E len \in lens : TailMatch(text, i, len)}
    IN IF starts = {} THEN text
       ELSE LET i == CHOOSE x \in starts : \A y \in starts : x <= y
                fits == {len \in lens : TailMatch(text, i, len)}
                len == CHOOSE x \in fits : \A y \in fits : x <= y
            IN SubSeq(text, 1, i + len - 1)

\* re.split(r"(?<=[.!?])\s+", text): cut at every whitespace run that follows
\* a sentence-ending character
RECURSIVE SplitSentences(_)
SplitSentences(text) ==
    LET cuts == {i \in 2..Len(text) :
                    text[i] \in Whitespace /\ text[i - 1] \in SentenceEnd}
    IN IF cuts = {} THEN <<text>>
       ELSE LET i == CHOOSE x \in cuts : \A y \in cuts : x <= y
                after == lstrip(SubSeq(text, i, Len(text)))
            IN <<SubSeq(text, 1, i - 1)>> \o SplitSentences(after)

\* " ".join(list)
RECURSIVE JoinSentences(_)
JoinSentences(list) ==
    IF list = <<>> THEN <<>>
    ELSE IF Len(list) = 1 THEN list[1]
    ELSE list[1] \o <<" ">> \o JoinSentences(Tail(list))

RECURSIVE Repeat(_, _)
Repeat(t, n) == IF n = 0 THEN <<>> ELSE t \o Repeat(t, n - 1)

Phrase20 == <<" ">> \o Repeat(<<"a">>, TailPhraseMin - 2) \o <<".">>

\* texts long enough for the end-anchored pattern
LongTexts ==
    { Repeat(Phrase20, 3),
      <<"a", ".">> \o Repeat(Phrase20, 4),
      Repeat(Phrase20, 2),
      Repeat(Phrase20, 3) \o <<"a">> }

CleanTexts == SeqUpTo({"a", ".", " "}, MaxCleanLen) \cup LongTexts

CleanIdle ==
    /\ clean_pc = "idle"
    /\ clean_text = <<>>
    /\ sentences = <<>>
    /\ clean_i = 0
    /\ cleaned_sentences = <<>>
    /\ last_sentence = <<>>
    /\ repeat_count = 0
    /\ clean_result = <<>>

CleanInit ==
    /\ clean_pc = "sub"
    /\ clean_text \in CleanTexts
    /\ sentences = <<>>
    /\ clean_i = 0
    /\ cleaned_sentences = <<>>
    /\ last_sentence = <<>>
    /\ repeat_count = 0
    /\ clean_result = <<>>

\* cleaning.py 110
CleanSub ==
    /\ clean_pc = "sub"
    /\ clean_text' = SubRepeatedTail(clean_text)
    /\ clean_pc' = "split"
    /\ UNCHANGED <<sentences, clean_i, cleaned_sentences, last_sentence,
                   repeat_count, clean_result>>
    /\ UNCHANGED notClean

\* cleaning.py 113-116
CleanSplit ==
    /\ clean_pc = "split"
    /\ sentences' = SplitSentences(clean_text)
    /\ cleaned_sentences' = <<>>
    /\ last_sentence' = <<>>
    /\ repeat_count' = 0
    /\ clean_pc' = "loop"
    /\ UNCHANGED <<clean_text, clean_i, clean_result>>
    /\ UNCHANGED notClean

\* cleaning.py 118-127: one iteration
CleanStep ==
    /\ clean_pc = "loop"
    /\ clean_i < Len(sentences)
    /\ LET sentence == sentences[clean_i + 1]
           same == strip(sentence) = strip(last_sentence)
           count == IF same THEN repeat_count + 1 ELSE 0
       IN /\ repeat_count' = count
          /\ IF same /\ count >= 2
             THEN UNCHANGED <<cleaned_sentences, last_sentence>>
             ELSE /\ cleaned_sentences' = Append(cleaned_sentences, sentence)
                  /\ last_sentence' = sentence
    /\ clean_i' = clean_i + 1
    /\ UNCHANGED <<clean_pc, clean_text, sentences, clean_result>>
    /\ UNCHANGED notClean

\* cleaning.py 129
CleanReturn ==
    /\ clean_pc = "loop"
    /\ clean_i = Len(sentences)
    /\ clean_result' = JoinSentences(cleaned_sentences)
    /\ clean_pc' = "done"
    /\ UNCHANGED <<clean_text, sentences, clean_i, cleaned_sentences,
                   last_sentence, repeat_count>>
    /\ UNCHANGED notClean

CleanNext == CleanSub \/ CleanSplit \/ CleanStep \/ CleanReturn

\* ------------------------------------------- claims: clean_transcript_text
\* every run of sentences identical after trimming reduced to its first
RECURSIVE CollapseRuns(_)
CollapseRuns(list) ==
    IF Len(list) <= 1 THEN list
    ELSE LET front == CollapseRuns(SubSeq(list, 1, Len(list) - 1))
             s == list[Len(list)]
         IN IF strip(s) = strip(list[Len(list) - 1]) THEN front
            ELSE Append(front, s)

\* C7: the sentences kept are the sentences of the text with every run of
\* two or more consecutive identical sentences reduced to its first one.
C7_RunsReducedToOne ==
    clean_pc = "done" =>
        /\ cleaned_sentences = CollapseRuns(sentences)
        /\ clean_result = JoinSentences(CollapseRuns(sentences))

\* -------------------------------------------------------- detect_repetition
MaxDetectLen == 7             \* characters of the text
MaxPhraseLen == 2             \* values of min_phrase_len: 1..MaxPhraseLen
MaxRepeats == 3               \* values of min_repeats: 2..MaxRepeats

None == [found |-> FALSE, phrase |-> <<>>]

\* text[start : start + len] with a 0-based start
Slice(text, start, len) == SubSeq(text, start + 1, start + len)

\* the loop around text.find(phrase, pos): every occurrence, overlapping or not
CountOccurrences(text, phrase) ==
    Cardinality({pos \in 0..(Len(text) - Len(phrase)) :
                    Slice(text, pos, Len(phrase)) = phrase})

\* cleaning.py 27-43: the inner loop from `start` on; the phrase returned, or
\* None when the loop ends
RECURSIVE ScanStarts(_, _, _, _)
ScanStarts(text, len, start, repeats) ==
    IF start >= Len(text) - len * repeats THEN None
    ELSE LET phrase == Slice(text, start, len)
         IN IF strip(phrase) = <<>>
            THEN ScanStarts(text, len, start + 1, repeats)
            ELSE IF CountOccurrences(text, phrase) >= repeats
            THEN [found |-> TRUE, phrase |-> phrase]
            ELSE ScanStarts(text, len, start + 1, repeats)

DetectTexts == SeqUpTo({"a", "b", " "}, MaxDetectLen)

DetectIdle ==
    /\ detect_pc = "idle"
    /\ detect_text = <<>>
    /\ min_phrase_len = 0
    /\ min_repeats = 0
    /\ phrase_len = 0
    /\ detect_result = None

DetectInit ==
    /\ detect_pc = "normalize"
    /\ detect_text \in DetectTexts
    /\ min_phrase_len \in 1..MaxPhraseLen
    /\ min_repeats \in 2..MaxRepeats
    /\ phrase_len = 0
    /\ detect_result = None

\* cleaning.py 22: " ".join(text.split())
DetectNormalize ==
    /\ detect_pc = "normalize"
    /\ detect_text' = JoinSentences(Split(detect_text))
    /\ phrase_len' = min_phrase_len
    /\ detect_pc' = "scan"
    /\ UNCHANGED <<min_phrase_len, min_repeats, detect_result>>
    /\ UNCHANGED notDetect

\* cleaning.py 25-43: one phrase length
DetectScanLength ==
    /\ detect_pc = "scan"
    /\ phrase_len < Len(detect_text) \div min_repeats
    /\ LET hit == ScanStarts(detect_text, phrase_len, 0, min_repeats)
       IN IF hit.found
          THEN /\ detect_result' = hit
               /\ detect_pc' = "done"
               /\ UNCHANGED phrase_len
          ELSE /\ phrase_len' = phrase_len + 1
               /\ UNCHANGED <<detect_result, detect_pc>>
    /\ UNCHANGED <<detect_text, min_phrase_len, min_repeats>>
    /\ UNCHANGED notDetect

\* cleaning.py 25, 45: the range is exhausted
DetectReturnNone ==
    /\ detect_pc = "scan"
    /\ phrase_len >= Len(detect_text) \div min_repeats
    /\ detect_result' = None
    /\ detect_pc' = "done"
    /\ UNCHANGED <<detect_text, min_phrase_len, min_repeats, phrase_len>>
    /\ UNCHANGED notDetect

DetectNext == DetectNormalize \/ DetectScanLength \/ DetectReturnNone

\* ----------------------------------------------- claims: detect_repetition
\* the substrings of the normalized text of length >= min_phrase_len, not all
\* whitespace, that occur >= min_repeats times, as (length, start) pairs
RepeatedAt ==
    {ls \in (min_phrase_len..Len(detect_text)) \X (0..Len(detect_text)) :
        /\ ls[2] + ls[1] <= Len(detect_text)
        /\ ~AllWhitespace(Slice(detect_text, ls[2], ls[1]))
        /\ CountOccurrences(detect_text, Slice(detect_text, ls[2], ls[1]))
              >= min_repeats}

\* C8: a phrase is returned whenever some substring of length >=
\* min_phrase_len occurs >= min_repeats times, and it is the shortest such
\* substring, earliest start first; None only when there is none.
C8_FindsShortestRepeated ==
    detect_pc = "done" =>
        /\ detect_result.found <=> RepeatedAt # {}
        /\ detect_result.found =>
              \E ls \in RepeatedAt :
                  /\ detect_result.phrase = Slice(detect_text, ls[2], ls[1])
                  /\ \A o \in RepeatedAt :
                        \/ ls[1] < o[1]
                        \/ ls[1] = o[1] /\ ls[2] <= o[2]

\* -------------------------------------- correct_transcript, translate_transcript
MaxLlmSegs == 3               \* segments of the input document

\* llm.py 137: re.sub(r"<think>.*?</think>", "", text).strip(); the two tags
\* are single tokens of the text
RECURSIVE RemoveThinking(_)
RemoveThinking(t) ==
    LET opens == {i \in 1..Len(t) :
                    t[i] = "<think>"
                    /\ \E j \in (i + 1)..Len(t) : t[j] = "</think>"}
    IN IF opens = {} THEN t
       ELSE LET i == CHOOSE x \in opens : \A y \in opens : x <= y
                closes == {j \in (i + 1)..Len(t) : t[j] = "</think>"}
                j == CHOOSE x \in closes : \A y \in closes : x <= y
            IN SubSeq(t, 1, i - 1) \o RemoveThinking(SubSeq(t, j + 1, Len(t)))

_clean_thinking_tags(t) == strip(RemoveThinking(t))

\* llm.py 99-100, 113, 125: the text generate() returns, or the input text
\* when that is empty
Generated(response, text) ==
    LET result == _clean_thinking_tags(strip(response))
    IN IF result # <<>> THEN result ELSE text

\* what the model may answer
Responses ==
    { <<>>,
      hi,
      <<"H", "i", ".">>,
      <<"<think>", "h", "m", "</think>", " ", "h", "i", " ">> }

NoOriginal == <<"-">>

\* segments of a merged document, and one that was corrected before
LlmSegmentPool ==
    { [text |-> hi, has_original |-> FALSE, original_text |-> NoOriginal],
      [text |-> <<" ", "h", "i">>, has_original |-> FALSE,
       original_text |-> NoOriginal],
      [text |-> blank, has_original |-> FALSE, original_text |-> NoOriginal],
      [text |-> hi, has_original |-> TRUE, original_text |-> yo] }

LlmNewSegmentAlways(op, seg, new_text) ==
    [text |-> new_text, has_original |-> TRUE, original_text |-> seg.text]

\* llm.py 178-181 and 238-244: the output segment
LlmNewSegment(op, seg, new_text) ==
    IF op = "correct"
    THEN IF new_text # seg.text
         THEN [text |-> new_text, has_original |-> TRUE,
               original_text |-> seg.text]
         ELSE [seg EXCEPT !.text = new_text]
    ELSE [text |-> new_text, has_original |-> TRUE,
          original_text |-> seg.text]

NoLlmFile == [written |-> FALSE, segments |-> <<>>]

LlmIdle ==
    /\ llm_pc = "idle"
    /\ llm_op = ""
    /\ llm_segments = <<>>
    /\ llm_i = 0
    /\ in_flight = 0
    /\ requests = <<>>
    /\ out_segments = <<>>
    /\ llm_file = NoLlmFile

\* llm.py 157-168, 216-228
LlmInit ==
    /\ llm_pc = "loop"
    /\ llm_op \in {"correct", "translate"}
    /\ llm_segments \in SeqUpTo(LlmSegmentPool, MaxLlmSegs)
    /\ llm_i = 0
    /\ in_flight = 0
    /\ requests = <<>>
    /\ out_segments = <<>>
    /\ llm_file = NoLlmFile

\* llm.py 160, 219: read_json raises on a missing or malformed input file
LlmReadFailure ==
    /\ llm_pc = "loop"
    /\ llm_i = 0
    /\ llm_pc' = "error"
    /\ UNCHANGED <<llm_op, llm_segments, llm_i, in_flight, requests,
                   out_segments, llm_file>>
    /\ UNCHANGED notLlm

\* llm.py 175-181, 235-244: a blank text is not sent to the model
LlmSkipBlank ==
    /\ llm_pc = "loop"
    /\ llm_i < Len(llm_segments)
    /\ strip(llm_segments[llm_i + 1].text) = <<>>
    /\ out_segments' =
          Append(out_segments,
                 LlmNewSegment(llm_op, llm_segments[llm_i + 1],
                               llm_segments[llm_i + 1].text))
    /\ llm_i' = llm_i + 1
    /\ UNCHANGED <<llm_pc, llm_op, llm_segments, in_flight, requests,
                   llm_file>>
    /\ UNCHANGED notLlm

\* llm.py 172-174, 232-234, 81: the request goes out
LlmRequest ==
    /\ llm_pc = "loop"
    /\ llm_i < Len(llm_segments)
    /\ strip(llm_segments[llm_i + 1].text) # <<>>
    /\ in_flight' = in_flight + 1
    /\ requests' = Append(requests, llm_i + 1)
    /\ llm_pc' = "request"
    /\ UNCHANGED <<llm_op, llm_segments, llm_i, out_segments, llm_file>>
    /\ UNCHANGED notLlm

LlmResponseOutOfOrder ==
    /\ llm_pc = "request"
    /\ \E response \in Responses :
          out_segments' =
             <<LlmNewSegment(llm_op, llm_segments[llm_i + 1],
                             Generated(response,
                                       llm_segments[llm_i + 1].text))>>
             \o out_segments
    /\ in_flight' = in_flight - 1
    /\ llm_i' = llm_i + 1
    /\ llm_pc' = "loop"
    /\ UNCHANGED <<llm_op, llm_segments, requests, llm_file>>
    /\ UNCHANGED notLlm

\* llm.py 98-100, 178-181, 238-244: the response arrives
LlmResponse ==
    /\ llm_pc = "request"
    /\ \E response \in Responses :
          out_segments' =
             Append(out_segments,
                    LlmNewSegment(llm_op, llm_segments[llm_i + 1],
                                  Generated(response,
                                            llm_segments[llm_i + 1].text)))
    /\ in_flight' = in_flight - 1
    /\ llm_i' = llm_i + 1
    /\ llm_pc' = "loop"
    /\ UNCHANGED <<llm_op, llm_segments, requests, llm_file>>
    /\ UNCHANGED notLlm

LlmFailureSavesPartial ==
    /\ llm_pc = "request"
    /\ in_flight' = in_flight - 1
    /\ llm_pc' = "error"
    /\ llm_file' = [written |-> TRUE, segments |-> out_segments]
    /\ UNCHANGED <<llm_op, llm_segments, llm_i, requests, out_segments>>
    /\ UNCHANGED notLlm

\* llm.py 81-98: the request times out or raise_for_status() raises
LlmFailure ==
    /\ llm_pc = "request"
    /\ in_flight' = in_flight - 1
    /\ llm_pc' = "error"
    /\ UNCHANGED <<llm_op, llm_segments, llm_i, requests, out_segments,
                   llm_file>>
    /\ UNCHANGED notLlm

\* llm.py 185-194, 248-258
LlmSave ==
    /\ llm_pc = "loop"
    /\ llm_i = Len(llm_segments)
    /\ llm_file' = [written |-> TRUE, segments |-> out_segments]
    /\ llm_pc' = "done"
    /\ UNCHANGED <<llm_op, llm_segments, llm_i, in_flight, requests,
                   out_segments>>
    /\ UNCHANGED notLlm

LlmNext ==
    \/ LlmReadFailure
    \/ LlmSkipBlank
    \/ LlmRequest
    \/ LlmResponse
    \/ LlmFailure
    \/ LlmSave

\* ------------------------ claims: correct_transcript, translate_transcript
Changed(i) == llm_file.segments[i].text # llm_segments[i].text

\* C9 as stated: an output segment carries original_text if and only if its
\* text differs from the input text, and then it is the input text.
C9_OriginalIffChanged ==
    llm_pc = "done" =>
        \A i \in 1..Len(llm_file.segments) :
            /\ llm_file.segments[i].has_original <=> Changed(i)
            /\ llm_file.segments[i].has_original =>
                  llm_file.segments[i].original_text = llm_segments[i].text

\* C9 (amended): correct_transcript sets original_text to the input text on
\* a segment whose text changed and leaves an unchanged segment as it was in
\* the input; translate_transcript sets original_text to the input text on
\* every segment, changed or not.
C9_OriginalText ==
    llm_pc = "done" =>
        /\ Len(llm_file.segments) = Len(llm_segments)
        /\ \A i \in 1..Len(llm_segments) :
              LET out == llm_file.segments[i]
              IN IF llm_op = "translate" \/ Changed(i)
                 THEN /\ out.has_original
                      /\ out.original_text = llm_segments[i].text
                 ELSE out = llm_segments[i]

\* a translated document with a blank segment and a segment the model
\* returned unchanged, both carrying original_text
C9_Witness ==
    /\ llm_pc = "done"
    /\ llm_op = "translate"
    /\ \E i, j \in 1..Len(llm_segments) :
          /\ AllWhitespace(llm_segments[i].text)
          /\ ~Changed(i)
          /\ llm_file.segments[i].has_original
          /\ ~AllWhitespace(llm_segments[j].text)
          /\ ~llm_segments[j].has_original
          /\ ~Changed(j)
          /\ llm_file.segments[j].has_original

\* the positions of the segments with a non-blank text, ascending
RECURSIVE NonBlankPositions(_, _)
NonBlankPositions(segs, k) ==
    IF k > Len(segs) THEN <<>>
    ELSE (IF AllWhitespace(segs[k].text) THEN <<>> ELSE <<k>>)
         \o NonBlankPositions(segs, k + 1)

\* 1, 2, .., n
Positions(n) == [k \in 1..n |-> k]

\* output segment k is what the loop builds from input segment k
DerivedFrom(out, seg) ==
    \/ out = LlmNewSegment(llm_op, seg, seg.text)
    \/ \E response \in Responses :
          out = LlmNewSegment(llm_op, seg, Generated(response, seg.text))

\* at most one request is in flight, and the request for a segment goes out
\* only when every earlier segment has its output
Sequential ==
    /\ in_flight \in {0, 1}
    /\ in_flight = 1 <=> llm_pc = "request"
    /\ llm_pc = "request" =>
          /\ requests # <<>>
          /\ requests[Len(requests)] = llm_i + 1
          /\ Len(out_segments) = llm_i
    /\ \A a, b \in 1..Len(requests) : a < b => requests[a] < requests[b]

SameLengthAndOrder ==
    /\ Len(out_segments) = llm_i
    /\ \A k \in 1..Len(out_segments) :
          DerivedFrom(out_segments[k], llm_segments[k])
    /\ llm_pc = "done" =>
          /\ llm_file.segments = out_segments
          /\ Len(llm_file.segments) = Len(llm_segments)

\* C21 as stated: requests are sequential, at most one in flight, the output
\* has the length and order of the input, and there is one request per
\* transcript segment.
C21_OneRequestPerSegment ==
    /\ Sequential
    /\ SameLengthAndOrder
    /\ llm_pc = "done" => requests = Positions(Len(llm_segments))

\* C21 (amended): requests are sequential with at most one in flight, the
\* request for a segment going out only after every earlier segment has its
\* output; there is one request per segment whose text is not blank, in
\* input order, and none for a blank one; the output has the length and
\* order of the input, output segment i derived from input segment i.
C21_SequentialRequests ==
    /\ Sequential
    /\ SameLengthAndOrder
    /\ llm_pc = "done" => requests = NonBlankPositions(llm_segments, 1)

\* a finished document of three segments whose middle one is blank: two
\* requests were made, for the first and the third
C21_Witness ==
    /\ llm_pc = "done"
    /\ Len(llm_segments) = 3
    /\ AllWhitespace(llm_segments[2].text)
    /\ requests = <<1, 3>>
    /\ Len(llm_file.segments) = 3

\* ------------------------------------------- seconds_to_srt, seconds_to_vtt
MaxHours == 100               \* the longest time encoded, in hours
MaxExtraTicks == 2            \* ticks past a whole millisecond in the inputs

TicksPerSecond == 1000 * TicksPerMs

DigitChars == <<"0", "1", "2", "3", "4", "5", "6", "7", "8", "9">>

\* str(n) of a non-negative int
RECURSIVE str(_)
str(n) ==
    IF n < 10 THEN <<DigitChars[n + 1]>>
    ELSE str(n \div 10) \o <<DigitChars[(n % 10) + 1]>>

\* f"{n:0{width}d}": zero-padded to at least `width` digits
RECURSIVE ZeroPad(_, _)
ZeroPad(digits, width) ==
    IF Len(digits) >= width THEN digits ELSE ZeroPad(<<"0">> \o digits, width)

Separator(style) == IF style = "srt" THEN "," ELSE "."

EncodeUnpadded(t, style) ==
    LET hours == t \div (3600 * TicksPerSecond)
        minutes == (t % (3600 * TicksPerSecond)) \div (60 * TicksPerSecond)
        secs == (t % (60 * TicksPerSecond)) \div TicksPerSecond
        millis == Round3(t % TicksPerSecond) \div TicksPerMs
    IN ZeroPad(str(hours), 2) \o <<":">> \o ZeroPad(str(minutes), 2)
       \o <<":">> \o ZeroPad(str(secs), 2) \o <<Separator(style)>>
       \o str(millis)

\* spec 4.1: integer hours, minutes, integer seconds, and the fractional
\* part rounded to milliseconds; hours zero-padded to at least two digits
Encode(t, style) ==
    LET hours == t \div (3600 * TicksPerSecond)
        minutes == (t % (3600 * TicksPerSecond)) \div (60 * TicksPerSecond)
        secs == (t % (60 * TicksPerSecond)) \div TicksPerSecond
        millis == Round3(t % TicksPerSecond) \div TicksPerMs
    IN ZeroPad(str(hours), 2) \o <<":">> \o ZeroPad(str(minutes), 2)
       \o <<":">> \o ZeroPad(str(secs), 2) \o <<Separator(style)>>
       \o ZeroPad(str(millis), 3)

seconds_to_srt(t) == Encode(t, "srt")
seconds_to_vtt(t) == Encode(t, "vtt")

RECURSIVE ParseInt(_)
ParseInt(digits) ==
    IF digits = <<>> THEN 0
    ELSE 10 * ParseInt(SubSeq(digits, 1, Len(digits) - 1))
         + (CHOOSE d \in 0..9 : DigitChars[d + 1] = digits[Len(digits)])

\* the fields of a timestamp, cut at the two colons and the separator
Fields(text) ==
    LET c1 == CHOOSE i \in 1..Len(text) :
                 text[i] = ":" /\ \A j \in 1..(i - 1) : text[j] # ":"
        c2 == CHOOSE i \in (c1 + 1)..Len(text) :
                 text[i] = ":" /\ \A j \in (c1 + 1)..(i - 1) : text[j] # ":"
        c3 == CHOOSE i \in (c2 + 1)..Len(text) : text[i] \in {",", "."}
    IN [hours |-> SubSeq(text, 1, c1 - 1),
        minutes |-> SubSeq(text, c1 + 1, c2 - 1),
        secs |-> SubSeq(text, c2 + 1, c3 - 1),
        separator |-> text[c3],
        millis |-> SubSeq(text, c3 + 1, Len(text))]

\* the time a timestamp stands for
Decode(text) ==
    LET f == Fields(text)
    IN (((ParseInt(f.hours) * 60 + ParseInt(f.minutes)) * 60
         + ParseInt(f.secs)) * 1000 + ParseInt(f.millis)) * TicksPerMs

\* times in milliseconds around every carry of the decomposition
CodecMillis ==
    {0, 1, 9, 10, 99, 100, 999, 1000, 1001, 2500, 59999, 60000, 61001,
     3599999, 3600000, 3661500, 35999999, 36000000,
     (MaxHours - 1) * 3600000 - 1, (MaxHours - 1) * 3600000,
     MaxHours * 3600000 - 1, MaxHours * 3600000, MaxHours * 3600000 + 999}

CodecTimes ==
    {ms * TicksPerMs + extra : ms \in CodecMillis, extra \in 0..MaxExtraTicks}

CodecIdle ==
    /\ codec_pc = "idle"
    /\ codec_seconds = 0
    /\ codec_style = ""
    /\ codec_text = <<>>
    /\ codec_decoded = 0

CodecInit ==
    /\ codec_pc = "encode"
    /\ codec_seconds \in CodecTimes
    /\ codec_style \in {"srt", "vtt"}
    /\ codec_text = <<>>
    /\ codec_decoded = 0

CodecEncode ==
    /\ codec_pc = "encode"
    /\ codec_text' = IF codec_style = "srt" THEN seconds_to_srt(codec_seconds)
                     ELSE seconds_to_vtt(codec_seconds)
    /\ codec_pc' = "decode"
    /\ UNCHANGED <<codec_seconds, codec_style, codec_decoded>>
    /\ UNCHANGED notCodec

CodecDecode ==
    /\ codec_pc = "decode"
    /\ codec_decoded' = Decode(codec_text)
    /\ codec_pc' = "done"
    /\ UNCHANGED <<codec_seconds, codec_style, codec_text>>
    /\ UNCHANGED notCodec

CodecNext ==
    \/ CodecEncode
    \/ CodecDecode

\* ----------------------------------- claims: seconds_to_srt, seconds_to_vtt
\* the time has at most three decimals
MillisecondResolution(t) == t % TicksPerMs = 0

Encoded == codec_pc \in {"decode", "done"}

\* C17: for a non-negative time t at millisecond resolution the timestamp is
\* HH:MM:SS,mmm (SRT) or HH:MM:SS.mmm (VTT): minutes and seconds two digits
\* in 00..59, milliseconds three digits in 000..999, hours = t div 3600
\* padded to at least two digits and not bounded by 99; decoding it gives t
\* rounded to three decimals; encode(0, SRT) = "00:00:00,000" and
\* encode(3661.5, VTT) = "01:01:01.500".
C17_TimestampCodec ==
    /\ (Encoded /\ MillisecondResolution(codec_seconds)) =>
          LET f == Fields(codec_text)
          IN /\ Len(f.hours) >= 2
             /\ Len(f.hours) > 2 => Head(f.hours) # "0"
             /\ ParseInt(f.hours) = codec_seconds \div (3600 * TicksPerSecond)
             /\ Len(f.minutes) = 2
             /\ ParseInt(f.minutes) \in 0..59
             /\ Len(f.secs) = 2
             /\ ParseInt(f.secs) \in 0..59
             /\ Len(f.millis) = 3
             /\ ParseInt(f.millis) \in 0..999
             /\ f.separator = (IF codec_style = "srt" THEN "," ELSE ".")
             /\ Len(codec_text) = Len(f.hours) + 10
             /\ \A i \in 1..Len(codec_text) :
                   \/ codec_text[i] \in {":", f.separator}
                   \/ \E d \in 1..10 : DigitChars[d] = codec_text[i]
    /\ (codec_pc = "done" /\ MillisecondResolution(codec_seconds)) =>
          /\ codec_decoded = Round3(codec_seconds)
          /\ codec_decoded = codec_seconds
    /\ (Encoded /\ codec_seconds = 0 /\ codec_style = "srt") =>
          codec_text =
             <<"0", "0", ":", "0", "0", ":", "0", "0", ",", "0", "0", "0">>
    /\ (Encoded /\ codec_seconds = 3661500 * TicksPerMs
        /\ codec_style = "vtt") =>
          codec_text =
             <<"0", "1", ":", "0", "1", ":", "0", "1", ".", "5", "0", "0">>

\* a time past 99 hours, one millisecond short of the next second, read back
C17_Witness ==
    /\ codec_pc = "done"
    /\ MillisecondResolution(codec_seconds)
    /\ codec_seconds \div (3600 * TicksPerSecond) > 99
    /\ Len(Fields(codec_text).hours) = 3
    /\ ParseInt(Fields(codec_text).millis) = 999
    /\ codec_decoded = codec_seconds

\* ------------------------------------------------- export_srt, export_vtt
MaxSubSegs == 2               \* segments of the document exported

hello == <<"h", "e", "l", "l", "o">>

\* dict.get(key, default) on a segment
SegGet(seg, key, default) == IF key \in seg.keys THEN seg[key] ELSE default

\* segments of a merged document, some with a field missing or empty
SubSegmentPool ==
    { [keys |-> {"start", "end", "speaker", "text"},
       start |-> TicksPerSecond, end |-> 2500 * TicksPerMs,
       speaker |-> UNKNOWN, text |-> hello],
      [keys |-> {"start", "end", "speaker", "text"},
       start |-> 2500 * TicksPerMs, end |-> 3661500 * TicksPerMs,
       speaker |-> "SPEAKER_00", text |-> yo_padded],
      [keys |-> {"start", "end", "speaker", "text"},
       start |-> 0, end |-> TicksPerSecond,
       speaker |-> "", text |-> hi],
      [keys |-> {"start", "end", "speaker", "text"},
       start |-> 0, end |-> TicksPerMs,
       speaker |-> "SPEAKER_00", text |-> blank],
      [keys |-> {"text"},
       start |-> 0, end |-> 0, speaker |-> "", text |-> hi] }

\* the documents at input_path: a merged document, one without a segment
\* list, and a file that cannot be read or parsed
SubDocs ==
    {[readable |-> TRUE, keys |-> {"segments"}, segments |-> l] :
        l \in SeqUpTo(SubSegmentPool, MaxSubSegs)}
    \cup
    {[readable |-> TRUE, keys |-> {}, segments |-> <<>>],
     [readable |-> FALSE, keys |-> {}, segments |-> <<>>]}

NoSubFile == [written |-> FALSE, content |-> <<>>]

Arrow == <<" ", "-", "-", ">", " ">>
WEBVTT == <<"W", "E", "B", "V", "T", "T">>

\* "\n".join(lines)
RECURSIVE JoinLines(_)
JoinLines(lines) ==
    IF lines = <<>> THEN <<>>
    ELSE IF Len(lines) = 1 THEN lines[1]
    ELSE lines[1] \o <<"\n">> \o JoinLines(Tail(lines))

\* subtitles.py 30, 70
Header(style) == IF style = "srt" THEN <<>> ELSE <<WEBVTT, <<>>>>

TextLineSkipUnknown(style, with_speaker, seg) ==
    LET text == strip(SegGet(seg, "text", <<>>))
        speaker == SegGet(seg, "speaker", "")
    IN IF with_speaker /\ speaker # "" /\ speaker # UNKNOWN
       THEN IF style = "srt"
            THEN <<"[", speaker, "]", " ">> \o text
            ELSE <<"<", "v", " ", speaker, ">">> \o text
       ELSE text

\* subtitles.py 37-38, 77-78; a speaker label is one token of the line
TextLine(style, with_speaker, seg) ==
    LET text == strip(SegGet(seg, "text", <<>>))
        speaker == SegGet(seg, "speaker", "")
    IN IF with_speaker /\ speaker # ""
       THEN IF style = "srt"
            THEN <<"[", speaker, "]", " ">> \o text
            ELSE <<"<", "v", " ", speaker, ">">> \o text
       ELSE text

CueLinesFromZero(style, with_speaker, i, seg) ==
    LET start == Encode(SegGet(seg, "start", 0), style)
        end == Encode(SegGet(seg, "end", 0), style)
    IN <<str(i - 1), start \o Arrow \o end,
         TextLine(style, with_speaker, seg), <<>>>>

\* subtitles.py 31-43, 71-83: the four lines one iteration appends
CueLines(style, with_speaker, i, seg) ==
    LET start == Encode(SegGet(seg, "start", 0), style)
        end == Encode(SegGet(seg, "end", 0), style)
    IN <<str(i), start \o Arrow \o end, TextLine(style, with_speaker, seg),
         <<>>>>

SubIdle ==
    /\ sub_pc = "idle"
    /\ sub_style = ""
    /\ include_speaker = FALSE
    /\ sub_data = [readable |-> FALSE, keys |-> {}, segments |-> <<>>]
    /\ sub_segments = <<>>
    /\ sub_i = 0
    /\ sub_lines = <<>>
    /\ sub_file = NoSubFile

\* subtitles.py 12-25, 52-65
SubInit ==
    /\ sub_pc = "load"
    /\ sub_style \in {"srt", "vtt"}
    /\ include_speaker \in BOOLEAN
    /\ sub_data \in SubDocs
    /\ sub_segments = <<>>
    /\ sub_i = 0
    /\ sub_lines = <<>>
    /\ sub_file = NoSubFile

\* subtitles.py 27-30, 67-70
SubLoad ==
    /\ sub_pc = "load"
    /\ sub_data.readable
    /\ sub_segments' = IF "segments" \in sub_data.keys THEN sub_data.segments
                       ELSE <<>>
    /\ sub_lines' = Header(sub_style)
    /\ sub_pc' = "loop"
    /\ UNCHANGED <<sub_style, include_speaker, sub_data, sub_i, sub_file>>
    /\ UNCHANGED notSub

\* subtitles.py 27, 67: read_json raises
SubReadFailure ==
    /\ sub_pc = "load"
    /\ ~sub_data.readable
    /\ sub_pc' = "error"
    /\ UNCHANGED <<sub_style, include_speaker, sub_data, sub_segments, sub_i,
                   sub_lines, sub_file>>
    /\ UNCHANGED notSub

\* subtitles.py 31-43, 71-83
SubStep ==
    /\ sub_pc = "loop"
    /\ sub_i < Len(sub_segments)
    /\ sub_lines' = sub_lines \o CueLines(sub_style, include_speaker, sub_i + 1,
                                          sub_segments[sub_i + 1])
    /\ sub_i' = sub_i + 1
    /\ UNCHANGED <<sub_pc, sub_style, include_speaker, sub_data, sub_segments,
                   sub_file>>
    /\ UNCHANGED notSub

\* subtitles.py 45-49, 85-89
SubSave ==
    /\ sub_pc = "loop"
    /\ sub_i = Len(sub_segments)
    /\ sub_file' = [written |-> TRUE, content |-> JoinLines(sub_lines)]
    /\ sub_pc' = "done"
    /\ UNCHANGED <<sub_style, include_speaker, sub_data, sub_segments, sub_i,
                   sub_lines>>
    /\ UNCHANGED notSub

SubNext ==
    \/ SubLoad
    \/ SubReadFailure
    \/ SubStep
    \/ SubSave

\* ------------------------------------------ claims: export_srt, export_vtt
HeaderLines == IF sub_style = "vtt" THEN 2 ELSE 0

\* the four lines of cue k in the lines written
Cue(k) == SubSeq(sub_lines, HeaderLines + 4 * (k - 1) + 1, HeaderLines + 4 * k)

IsSuffix(t, line) ==
    /\ Len(t) <= Len(line)
    /\ SubSeq(line, Len(line) - Len(t) + 1, Len(line)) = t

\* the line is `start --> end` for the segment's times, in the style's codec
TimingLine(line, seg) ==
    \E n \in 1..Len(line) :
        LET a == SubSeq(line, 1, n)
            b == SubSeq(line, n + Len(Arrow) + 1, Len(line))
        IN /\ line = a \o Arrow \o b
           /\ Decode(a) = SegGet(seg, "start", 0)
           /\ Decode(b) = SegGet(seg, "end", 0)
           /\ Fields(a).separator = Separator(sub_style)
           /\ Fields(b).separator = Separator(sub_style)

Count(c, t) == Cardinality({i \in 1..Len(t) : t[i] = c})

RECURSIVE TotalLength(_)
TotalLength(lines) ==
    IF lines = <<>> THEN 0 ELSE Len(Head(lines)) + TotalLength(Tail(lines))

\* the document {1.0, 2.5, UNKNOWN, hello}
SingleHello ==
    /\ Len(sub_segments) = 1
    /\ sub_segments[1] =
          [keys |-> {"start", "end", "speaker", "text"},
           start |-> TicksPerSecond, end |-> 2500 * TicksPerMs,
           speaker |-> UNKNOWN, text |-> hello]

\* C13: one cue per input segment, in input order, numbered 1..N without
\* gaps, empty texts included; a cue is the four lines index, start --> end,
\* text, blank; the lines are joined by newlines; VTT has the same cues after
\* the line WEBVTT and a blank line; {1.0, 2.5, UNKNOWN, hello} without
\* speaker labels gives "1\n00:00:01,000 --> 00:00:02,500\nhello\n".
C13_OneCuePerSegment ==
    sub_pc = "done" =>
        /\ Len(sub_lines) = HeaderLines + 4 * Len(sub_segments)
        /\ sub_style = "vtt" => sub_lines[1] = WEBVTT /\ sub_lines[2] = <<>>
        /\ \A k \in 1..Len(sub_segments) :
              /\ Cue(k)[1] # <<>>
              /\ Head(Cue(k)[1]) # "0"
              /\ ParseInt(Cue(k)[1]) = k
              /\ TimingLine(Cue(k)[2], sub_segments[k])
              /\ IsSuffix(strip(SegGet(sub_segments[k], "text", <<>>)),
                          Cue(k)[3])
              /\ Cue(k)[4] = <<>>
        /\ sub_file.written
        /\ sub_lines # <<>> =>
              /\ Count("\n", sub_file.content) = Len(sub_lines) - 1
              /\ Len(sub_file.content) =
                    TotalLength(sub_lines) + Len(sub_lines) - 1
              /\ IsSuffix(<<"\n">>, sub_file.content)
        /\ (SingleHello /\ sub_style = "srt" /\ ~include_speaker) =>
              sub_file.content =
                 <<"1", "\n",
                   "0", "0", ":", "0", "0", ":", "0", "1", ",", "0", "0", "0",
                   " ", "-", "-", ">", " ",
                   "0", "0", ":", "0", "0", ":", "0", "2", ",", "5", "0", "0",
                   "\n", "h", "e", "l", "l", "o", "\n">>
        /\ (SingleHello /\ sub_style = "vtt" /\ ~include_speaker) =>
              sub_file.content =
                 WEBVTT \o <<"\n", "\n", "1", "\n",
                   "0", "0", ":", "0", "0", ":", "0", "1", ".", "0", "0", "0",
                   " ", "-", "-", ">", " ",
                   "0", "0", ":", "0", "0", ":", "0", "2", ".", "5", "0", "0",
                   "\n", "h", "e", "l", "l", "o", "\n">>

\* two cues written, the first for a segment with empty text
C13_Witness ==
    /\ sub_pc = "done"
    /\ Len(sub_segments) = 2
    /\ AllWhitespace(sub_segments[1].text)
    /\ ~AllWhitespace(sub_segments[2].text)
    /\ ParseInt(Cue(2)[1]) = 2
    /\ sub_file.written

Labels == Speakers \cup {UNKNOWN}

HasSpeaker(seg) == "speaker" \in seg.keys /\ seg.speaker # ""

Trimmed(seg) == IF "text" \in seg.keys THEN strip(seg.text) ELSE <<>>

\* C14: the text line of a cue is `[speaker] text` (SRT) or `<v speaker>text`
\* (VTT, no space before the text) if and only if include_speaker is true and
\* the segment's speaker is a non-empty string, and the text alone otherwise;
\* with include_speaker false no label appears anywhere in the output.
C14_SpeakerPrefix ==
    sub_pc = "done" =>
        /\ \A k \in 1..Len(sub_segments) :
              LET seg == sub_segments[k]
              IN IF include_speaker /\ HasSpeaker(seg)
                 THEN /\ sub_style = "srt" =>
                            Cue(k)[3] = <<"[", seg.speaker, "]", " ">>
                                        \o Trimmed(seg)
                      /\ sub_style = "vtt" =>
                            Cue(k)[3] = <<"<", "v", " ", seg.speaker, ">">>
                                        \o Trimmed(seg)
                 ELSE Cue(k)[3] = Trimmed(seg)
        /\ ~include_speaker =>
              \A i \in 1..Len(sub_file.content) :
                  sub_file.content[i] \notin Labels

\* a VTT document with labels: one cue prefixed with UNKNOWN, one cue of a
\* segment with an empty speaker left without prefix
C14_Witness ==
    /\ sub_pc = "done"
    /\ sub_style = "vtt"
    /\ include_speaker
    /\ Len(sub_segments) = 2
    /\ sub_segments[1].speaker = UNKNOWN
    /\ Cue(1)[3] = <<"<", "v", " ", UNKNOWN, ">">> \o hello
    /\ "speaker" \in sub_segments[2].keys
    /\ sub_segments[2].speaker = ""
    /\ Cue(2)[3] = hi

\* ------------------------------------------------- claims: output files
\* the operations that write a document: merge_transcript,
\* correct_transcript / translate_transcript, export_srt / export_vtt
OutputNext ==
    \/ MergeNext
    \/ LlmNext
    \/ SubNext

\* the output path holds what it held before the call
Untouched ==
    /\ merge_pc # "done" => output_file = NoFile
    /\ llm_pc # "done" => llm_file = NoLlmFile
    /\ sub_pc # "done" => sub_file = NoSubFile

\* a document that was written is the whole document
Complete ==
    /\ merge_pc = "done" => output_file = merge_result
    /\ llm_pc = "done" =>
          /\ llm_file.written
          /\ Len(llm_file.segments) = Len(llm_segments)
    /\ sub_pc = "done" =>
          /\ sub_file.written
          /\ sub_file.content = JoinLines(sub_lines)
          /\ Len(sub_lines) = Len(Header(sub_style)) + 4 * Len(sub_segments)

\* a write is the step that ends the operation, and an operation that
\* raised does nothing more
WriteIsLast ==
    /\ output_file' # output_file =>
          merge_pc = "consolidate" /\ cons_i = Len(merged_segments)
          /\ merge_pc' = "done"
    /\ llm_file' # llm_file =>
          llm_pc = "loop" /\ llm_i = Len(llm_segments) /\ llm_pc' = "done"
    /\ sub_file' # sub_file =>
          sub_pc = "loop" /\ sub_i = Len(sub_segments) /\ sub_pc' = "done"
    /\ "error" \in {merge_pc, llm_pc, sub_pc} => UNCHANGED vars
    /\ "done" \in {merge_pc, llm_pc, sub_pc} => UNCHANGED vars

\* a failed read, a missing required field or a failed request raises
FailureRaises ==
    /\ (merge_pc = "load" /\ "segments" \notin diarization_data.keys) =>
          merge_pc' = "error"
    /\ (sub_pc = "load" /\ ~sub_data.readable) => sub_pc' = "error"
    /\ (llm_pc = "request" /\ in_flight' < in_flight
        /\ Len(out_segments') = Len(out_segments)) => llm_pc' = "error"

\* C12: merge_transcript, correct_transcript, translate_transcript,
\* export_srt and export_vtt write the output file only as their last step,
\* and whole; when a read, a required field or an LLM request (at any
\* segment index) fails the operation raises and the output path is as it
\* was before the call.
C12_OutputWrittenLast ==
    /\ [](Untouched /\ Complete)
    /\ [][WriteIsLast /\ FailureRaises]_vars

\* the request for the third segment failed after two segments were done
C12_Witness ==
    /\ llm_pc = "error"
    /\ llm_i = 2
    /\ Len(out_segments) = 2
    /\ llm_file = NoLlmFile

\* ------------------------------------------------- main, cmd_pipeline_run
\* pathlib: the position of the last "." of a file name, 0 when it has none
LastDot(name) ==
    LET dots == {i \in 1..Len(name) : name[i] = "."}
    IN IF dots = {} THEN 0 ELSE CHOOSE i \in dots : \A j \in dots : j <= i

\* Path.suffix: from the last dot, unless the dot is first or last in the name
suffix(name) ==
    IF 1 < LastDot(name) /\ LastDot(name) < Len(name)
    THEN SubSeq(name, LastDot(name), Len(name))
    ELSE <<>>

\* Path.stem: the name without its suffix
stem(name) == SubSeq(name, 1, Len(name) - Len(suffix(name)))

\* Path.with_suffix: the suffix replaced, or added when there is none
with_suffix(name, new_suffix) == stem(name) \o new_suffix

DotJson == <<".", "json">>

\* file names of input videos; a "." is a token of its own
Videos ==
    { <<"talk", ".", "mp4">>,
      <<"my", ".", "talk", ".", "mp4">>,
      <<"talk">> }

\* values of --lang, over the letters that Lower knows
Langs == { <<"A", "b">>, <<"b", "a">> }

\* what output_dir holds before the run: nothing, or a file of an older run
Stale == "stale"
Directories ==
    { <<>>,
      [n \in {<<"my">> \o DotJson} |-> Stale] }

\* cli.py 282-319: the paths cmd_pipeline_run computes
basename(v) == stem(v)
audio_path(v) == basename(v) \o <<"_audio", ".", "wav">>
transcript_stem(v) == basename(v) \o <<"_transcript">>
transcript_json(v) == with_suffix(transcript_stem(v), DotJson)
diarization_json(v) == basename(v) \o <<"_diarization">> \o DotJson
merged_path(v) == basename(v) \o <<"_merged">> \o DotJson
corrected_path(v) == basename(v) \o <<"_corrected">> \o DotJson
translated_path(v, l) == basename(v) \o <<"_">> \o LowerStr(l) \o DotJson
srt_path(v, l) == basename(v) \o <<"_">> \o LowerStr(l) \o <<".", "srt">>

\* transcription.py 50-51, 83: the file whisper-cli writes for an output path
result_path(output_path) ==
    (IF suffix(output_path) = DotJson
     THEN with_suffix(output_path, <<>>)
     ELSE output_path) \o DotJson

\* cli.py 286-320: the stages in program order
StageNames ==
    <<"extract", "transcribe", "diarize", "merge", "correct", "translate",
      "export_srt">>

\* the files in output_dir stage k opens for reading
Inputs(k, v, l) ==
    CASE k = 1 -> <<>>
      [] k = 2 -> <<audio_path(v)>>
      [] k = 3 -> <<audio_path(v)>>
      [] k = 4 -> <<transcript_json(v), diarization_json(v)>>
      [] k = 5 -> <<merged_path(v)>>
      [] k = 6 -> <<corrected_path(v)>>
      [] k = 7 -> <<translated_path(v, l)>>

\* the file stage k writes
Output(k, v, l) ==
    CASE k = 1 -> audio_path(v)
      [] k = 2 -> result_path(transcript_stem(v))
      [] k = 3 -> diarization_json(v)
      [] k = 4 -> merged_path(v)
      [] k = 5 -> corrected_path(v)
      [] k = 6 -> translated_path(v, l)
      [] k = 7 -> srt_path(v, l)

Missing == "missing"
WrittenBy(dir, name) == IF name \in DOMAIN dir THEN dir[name] ELSE Missing
Write(dir, name, who) ==
    [n \in DOMAIN dir \cup {name} |-> IF n = name THEN who ELSE dir[n]]

\* cli.py 46-233: the parser; PATH stands for any path argument
PATH == "PATH"
Positionals ==
    [extract |-> 2, transcribe |-> 2, diarize |-> 2, merge |-> 3,
     correct |-> 2, translate |-> 2]
SubPositionals ==
    [export |-> [srt |-> 2, vtt |-> 2], pipeline |-> [run |-> 1, quick |-> 1]]

Paths(n) == [i \in 1..n |-> PATH]

NoArgs ==
    [error |-> FALSE, version |-> FALSE, debug_info |-> FALSE,
     command |-> "", sub |-> ""]

\* cli.py 351: parser.parse_args(argv); sub is args.format / args.pipeline_cmd
parse_args(argv) ==
    IF argv = <<>> THEN NoArgs
    ELSE IF argv = <<"-V">> THEN [NoArgs EXCEPT !.version = TRUE]
    ELSE IF argv = <<"--debug-info">> THEN [NoArgs EXCEPT !.debug_info = TRUE]
    ELSE IF Head(argv) \in DOMAIN Positionals
    THEN IF Tail(argv) = Paths(Positionals[Head(argv)])
         THEN [NoArgs EXCEPT !.command = Head(argv)]
         ELSE [NoArgs EXCEPT !.error = TRUE]
    ELSE IF Head(argv) \in DOMAIN SubPositionals
    THEN IF Len(argv) = 1
         THEN [NoArgs EXCEPT !.command = Head(argv)]
         ELSE IF /\ argv[2] \in DOMAIN SubPositionals[Head(argv)]
                 /\ SubSeq(argv, 3, Len(argv))
                       = Paths(SubPositionals[Head(argv)][argv[2]])
         THEN [NoArgs EXCEPT !.command = Head(argv), !.sub = argv[2]]
         ELSE [NoArgs EXCEPT !.error = TRUE]
    ELSE [NoArgs EXCEPT !.error = TRUE]

\* command lines
Argvs ==
    { <<>>, <<"-V">>, <<"--debug-info">>, <<"bogus">>, <<"merge", PATH>>,
      <<"export">>, <<"pipeline">>,
      <<"export", "srt", PATH, PATH>>, <<"export", "vtt", PATH, PATH>>,
      <<"pipeline", "run", PATH>>, <<"pipeline", "quick", PATH>> }
    \cup { <<c>> \o Paths(Positionals[c]) : c \in DOMAIN Positionals }

IsPipelineRun(argv) ==
    parse_args(argv).command = "pipeline" /\ parse_args(argv).sub = "run"

NoExit == -1

CliIdle ==
    /\ cli_pc = "idle"
    /\ cli_argv = <<>>
    /\ video = <<>>
    /\ lang = <<>>
    /\ files = <<>>
    /\ stage = 0
    /\ started = <<>>
    /\ reads = <<>>
    /\ cli_output = ""
    /\ exit_code = NoExit

\* cli.py 407-409, 348-350: app() calls main() with the process's arguments
CliInit ==
    /\ cli_pc = "main"
    /\ cli_argv \in Argvs
    /\ IF IsPipelineRun(cli_argv)
       THEN video \in Videos /\ lang \in Langs /\ files \in Directories
       ELSE video = <<>> /\ lang = <<>> /\ files = <<>>
    /\ stage = 0
    /\ started = <<>>
    /\ reads = <<>>
    /\ cli_output = ""
    /\ exit_code = NoExit

Exit(code, output) ==
    /\ cli_pc' = "exit"
    /\ exit_code' = code
    /\ cli_output' = output
    /\ UNCHANGED <<cli_argv, video, lang, files, stage, started, reads>>
    /\ UNCHANGED notCli

\* cli.py 351: argparse rejects the command line, prints the usage and exits
\* with status 2
MainParseError ==
    /\ cli_pc = "main"
    /\ parse_args(cli_argv).error
    /\ Exit(2, "usage")

\* cli.py 354-356
MainVersion ==
    /\ cli_pc = "main"
    /\ parse_args(cli_argv).version
    /\ Exit(0, "version")

\* cli.py 358-360
MainDebugInfo ==
    /\ cli_pc = "main"
    /\ parse_args(cli_argv).debug_info
    /\ Exit(0, "debug_info")

\* cli.py 362-365, 409: no command given
MainNoCommand ==
    /\ cli_pc = "main"
    /\ parse_args(cli_argv) = NoArgs
    /\ Exit(0, "help")

\* cli.py 386-387, 393-394: export or pipeline without a subcommand parses
\* "--help", which prints the help and raises SystemExit(0)
MainSubcommandHelp ==
    /\ cli_pc = "main"
    /\ ~parse_args(cli_argv).error
    /\ parse_args(cli_argv).command \in DOMAIN SubPositionals
    /\ parse_args(cli_argv).sub = ""
    /\ Exit(0, "help")

\* cli.py 368-385, 391-392: a command handler other than pipeline run starts
MainDispatch ==
    /\ cli_pc = "main"
    /\ ~parse_args(cli_argv).error
    /\ \/ parse_args(cli_argv).command \in DOMAIN Positionals
       \/ /\ parse_args(cli_argv).command \in DOMAIN SubPositionals
          /\ parse_args(cli_argv).sub # ""
    /\ ~IsPipelineRun(cli_argv)
    /\ cli_pc' = "handler"
    /\ UNCHANGED <<cli_argv, video, lang, files, stage, started, reads,
                   cli_output, exit_code>>
    /\ UNCHANGED notCli

\* cli.py 404
HandlerReturn ==
    /\ cli_pc = "handler"
    /\ Exit(0, "saved")

\* cli.py 400-402
HandlerRaise ==
    /\ cli_pc = "handler"
    /\ Exit(1, "Error")

\* cli.py 397-399
HandlerInterrupt ==
    /\ cli_pc = "handler"
    /\ Exit(130, "Interrupted")

\* cli.py 388-390, 279-284
PipelineRunBegin ==
    /\ cli_pc = "main"
    /\ IsPipelineRun(cli_argv)
    /\ cli_pc' = "pipeline"
    /\ cli_output' = "Processing"
    /\ UNCHANGED <<cli_argv, video, lang, files, stage, started, reads,
                   exit_code>>
    /\ UNCHANGED notCli

\* cli.py 281, 400-402: output_dir cannot be created
PipelineMkdirFails ==
    /\ cli_pc = "main"
    /\ IsPipelineRun(cli_argv)
    /\ Exit(1, "Error")

\* cli.py 286-320: the next stage is called and opens its input files
StageStart ==
    /\ cli_pc = "pipeline"
    /\ stage < Len(StageNames)
    /\ started' = Append(started, StageNames[stage + 1])
    /\ reads' =
          reads \o
          [i \in 1..Len(Inputs(stage + 1, video, lang)) |->
              [stage |-> StageNames[stage + 1],
               name |-> Inputs(stage + 1, video, lang)[i],
               by |-> WrittenBy(files, Inputs(stage + 1, video, lang)[i])]]
    /\ cli_pc' = "stage"
    /\ UNCHANGED <<cli_argv, video, lang, files, stage, cli_output, exit_code>>
    /\ UNCHANGED notCli

\* the stage finds its inputs, writes its output file and returns
StageReturn ==
    /\ cli_pc = "stage"
    /\ \A i \in 1..Len(Inputs(stage + 1, video, lang)) :
          Inputs(stage + 1, video, lang)[i] \in DOMAIN files
    /\ files' = Write(files, Output(stage + 1, video, lang),
                      StageNames[stage + 1])
    /\ stage' = stage + 1
    /\ cli_pc' = "pipeline"
    /\ UNCHANGED <<cli_argv, video, lang, started, reads, cli_output,
                   exit_code>>
    /\ UNCHANGED notCli

\* cli.py 400-402: the stage raises (a missing input file, a failed process
\* or request)
StageRaise ==
    /\ cli_pc = "stage"
    /\ Exit(1, "Error")

\* cli.py 397-399
StageInterrupt ==
    /\ cli_pc = "stage"
    /\ Exit(130, "Interrupted")

\* cli.py 322, 404
PipelineRunDone ==
    /\ cli_pc = "pipeline"
    /\ stage = Len(StageNames)
    /\ Exit(0, "Done")

CliNext ==
    \/ MainParseError
    \/ MainVersion
    \/ MainDebugInfo
    \/ MainNoCommand
    \/ MainSubcommandHelp
    \/ MainDispatch
    \/ HandlerReturn
    \/ HandlerRaise
    \/ HandlerInterrupt
    \/ PipelineRunBegin
    \/ PipelineMkdirFails
    \/ StageStart
    \/ StageReturn
    \/ StageRaise
    \/ StageInterrupt
    \/ PipelineRunDone

\* ------------------------------------------- claims: main, cmd_pipeline_run
\* C22: invoking the entry point with no arguments shows the usage/help text
\* and exits with code 2.
C22_NoArgsExitsTwo ==
    (cli_pc = "exit" /\ cli_argv = <<>>) =>
        /\ cli_output = "help"
        /\ exit_code = 2

\* what the code does with no arguments: the help, and exit status 0
NoArgsExitsZero ==
    (cli_pc = "exit" /\ cli_argv = <<>>) =>
        /\ cli_output = "help"
        /\ exit_code = 0

\* the position of a stage in the pipeline, 0 for anything else
StageIndex(name) ==
    IF \E k \in 1..Len(StageNames) : StageNames[k] = name
    THEN CHOOSE k \in 1..Len(StageNames) : StageNames[k] = name
    ELSE 0

\* the stages start in program order, each after the previous one returned,
\* and none is started twice
StagesInOrder ==
    /\ started = SubSeq(StageNames, 1, Len(started))
    /\ Len(started) \in {stage, stage + 1}
    /\ Len(started) = stage + 1 =>
          \/ cli_pc = "stage"
          \/ cli_pc = "exit" /\ exit_code \in {1, 130}

\* every file a stage opens was written by an earlier stage of this run
ReadsWhatWasWritten ==
    \A i \in 1..Len(reads) :
        /\ StageIndex(reads[i].by) > 0
        /\ StageIndex(reads[i].by) < StageIndex(reads[i].stage)

\* 0 only after all seven stages, 1 or 130 after a stage that raised
ExitCodes ==
    (cli_pc = "exit" /\ IsPipelineRun(cli_argv)) =>
        /\ exit_code \in {0, 1, 130}
        /\ exit_code = 0 <=> stage = Len(StageNames)
        /\ exit_code = 0 => cli_output = "Done"
        /\ exit_code = 1 <=> cli_output = "Error"
        /\ exit_code = 130 <=> cli_output = "Interrupted"

\* C23: pipeline run executes its seven stages strictly in order, each
\* starting only after the previous one returned and reading the file the
\* earlier stage wrote; when a stage raises no later stage starts, nothing is
\* retried and main returns 1 (130 on KeyboardInterrupt); main returns 0 only
\* if every stage completed.
C23_PipelineRun ==
    /\ StagesInOrder
    /\ ReadsWhatWasWritten
    /\ ExitCodes

\* the order of the stages and the exit codes, without the files
OrderAndExitCodes ==
    /\ StagesInOrder
    /\ ExitCodes

\* a video name without a second dot: every read is of this run's file
PlainNamesReadWhatWasWritten ==
    LastDot(basename(video)) = 0 => ReadsWhatWasWritten

\* ---------------------------------------------------------- specifications
InitDominant == DomInit /\ MergeIdle /\ FilterIdle /\ CleanIdle /\ DetectIdle /\ LlmIdle /\ CodecIdle /\ SubIdle /\ CliIdle
SpecDominant == InitDominant /\ [][DomNext]_vars

InitMerge == MergeInit /\ DomIdle /\ FilterIdle /\ CleanIdle /\ DetectIdle /\ LlmIdle /\ CodecIdle /\ SubIdle /\ CliIdle
SpecMerge == InitMerge /\ [][MergeNext]_vars

InitFilter == FilterInit /\ DomIdle /\ MergeIdle /\ CleanIdle /\ DetectIdle /\ LlmIdle /\ CodecIdle /\ SubIdle /\ CliIdle
SpecFilter == InitFilter /\ [][FilterNext]_vars

InitClean == CleanInit /\ DomIdle /\ MergeIdle /\ FilterIdle /\ DetectIdle /\ LlmIdle /\ CodecIdle /\ SubIdle /\ CliIdle
SpecClean == InitClean /\ [][CleanNext]_vars

InitDetect ==
    DetectInit /\ DomIdle /\ MergeIdle /\ FilterIdle /\ CleanIdle /\ LlmIdle /\ CodecIdle /\ SubIdle /\ CliIdle
SpecDetect == InitDetect /\ [][DetectNext]_vars

InitLlm ==
    LlmInit /\ DomIdle /\ MergeIdle /\ FilterIdle /\ CleanIdle /\ DetectIdle /\ CodecIdle /\ SubIdle /\ CliIdle
SpecLlm == InitLlm /\ [][LlmNext]_vars

InitCodec ==
    CodecInit /\ DomIdle /\ MergeIdle /\ FilterIdle /\ CleanIdle /\ DetectIdle /\ LlmIdle /\ SubIdle /\ CliIdle
SpecCodec == InitCodec /\ [][CodecNext]_vars

InitSubtitles ==
    SubInit /\ DomIdle /\ MergeIdle /\ FilterIdle /\ CleanIdle /\ DetectIdle /\ LlmIdle /\ CodecIdle /\ CliIdle
SpecSubtitles == InitSubtitles /\ [][SubNext]_vars

InitCli ==
    CliInit /\ DomIdle /\ MergeIdle /\ FilterIdle /\ CleanIdle /\ DetectIdle /\ LlmIdle /\ CodecIdle /\ SubIdle
SpecCli == InitCli /\ [][CliNext]_vars

InitOutput == InitMerge \/ InitLlm \/ InitSubtitles
SpecOutput == InitOutput /\ [][OutputNext]_vars

====
